---- MODULE Spec2Model ----
(***************************************************************************)
(* Verification model of the Solana Bundler front end.                     *)
(*                                                                         *)
(*   App / LoadingScreen / TradingInterface   src/src/App.tsx              *)
(*   BundleCreator                 src/src/components/features/            *)
(*                                 TradingPanel.tsx                        *)
(*   ApiService, apiUtils.retry    src/src/utils/encryption.ts             *)
(*                                                                         *)
(* Each component keeps its React state in one record variable whose       *)
(* fields carry the names of the useState cells of the source.             *)
(***************************************************************************)
EXTENDS Integers, Sequences, FiniteSets, TLC

VARIABLES
    app,    \* App: isLoading, appError
    ls,     \* LoadingScreen: state cells, closure variable, its two timers
    ti,     \* TradingInterface: state cells
    view,   \* what the last commit of App put on the screen
    hist,   \* observations of the App run: stages shown, callbacks made
    bc,     \* BundleCreator: state cells
    memo,   \* BundleCreator: the useMemo values of the last render
    inflight, \* BundleCreator: suspended handleCreateBundle calls (closures)
    out,    \* BundleCreator: the calls of the props onCreateBundle and
            \* onError that the last step made, and how many were made so far
    pair,   \* two BundleCreator instances mounted with wallets that differ
            \* in their type tags only, given the same operations
    rt,     \* one call of apiUtils.retry: arguments, position, observations
    rq,     \* one call of ApiService.request: position, timer, result
    fmt,    \* the last call of a formatter: its arguments and its result
    uls,    \* localStorage and one useLocalStorage hook on it
    enc,    \* EncryptionService: the datum at hand and the last call
    sec,    \* secureStorage: the entries, the last call and its outcome
    setup,  \* one run of the setup script: position, environment, effects
    log,    \* one Logger: level, entries, console lines, the last call
    trade   \* TradingPanel: state cells, the pending onTrade calls, the
            \* observations of the last step

appVars == <<app, ls, ti, view, hist>>

bundleVars == <<bc, memo, inflight, out>>

vars ==
    <<app, ls, ti, view, hist, bc, memo, inflight, out, pair, rt, rq, fmt, uls,
      enc, sec, setup, log, trade>>

\* Frames: a step of one component leaves the others alone
OnlyApp == UNCHANGED <<bundleVars, pair, rt, rq, fmt, uls, enc, sec, setup,
        log, trade>>

OnlyBundle == UNCHANGED <<appVars, pair, rt, rq, fmt, uls, enc, sec, setup,
        log, trade>>

OnlyPair == UNCHANGED <<appVars, bundleVars, rt, rq, fmt, uls, enc, sec,
        setup,
        log, trade>>

OnlyRetry == UNCHANGED <<appVars, bundleVars, pair, rq, fmt, uls, enc, sec,
        setup,
        log, trade>>

OnlyApi == UNCHANGED <<appVars, bundleVars, pair, rt, fmt, uls, enc, sec,
        setup,
        log, trade>>

OnlyFormat == UNCHANGED <<appVars, bundleVars, pair, rt, rq, uls, enc, sec,
        setup,
        log, trade>>

OnlyHook == UNCHANGED <<appVars, bundleVars, pair, rt, rq, fmt, enc, sec,
        setup,
        log, trade>>

OnlyEncryption == UNCHANGED <<appVars, bundleVars, pair, rt, rq, fmt, uls,
        sec, setup,
        log, trade>>

OnlySecure == UNCHANGED <<appVars, bundleVars, pair, rt, rq, fmt, uls, enc,
        setup,
        log, trade>>

OnlySetup == UNCHANGED <<appVars, bundleVars, pair, rt, rq, fmt, uls, enc,
        sec,
        log, trade>>

OnlyLogger == UNCHANGED <<appVars, bundleVars, pair, rt, rq, fmt, uls, enc,
        sec, setup, trade>>

OnlyTrade == UNCHANGED <<appVars, bundleVars, pair, rt, rq, fmt, uls, enc,
        sec, setup, log>>

\* JavaScript null
Null == "null"

Min(a, b) == IF a <= b THEN a ELSE b


-----------------------------------------------------------------------------
(***************************************************************************)
(* JavaScript strings and numbers.                                         *)
(*                                                                         *)
(* A string that the code inspects character by character is a sequence of *)
(* one-character strings.  A number is a record: NaN, or a fixed-point     *)
(* value v counting units of 10^-FracDigits (the decimal literals and the  *)
(* inputs drawn below have at most FracDigits decimals, so that sums and   *)
(* products of them are exact).                                            *)
(***************************************************************************)

\* Decimals kept by the fixed-point numbers
FracDigits == 4

RECURSIVE Pow10(_)
Pow10(n) == IF n <= 0 THEN 1 ELSE 10 * Pow10(n - 1)

Scale == Pow10(FracDigits)

NaN == [nan |-> TRUE, v |-> 0]

Num(v) == [nan |-> FALSE, v |-> v]

\* a * n for an integer n (NaN * n is NaN)
NumTimes(a, n) == IF a.nan THEN NaN ELSE Num(a.v * n)

NumPlus(a, b) == IF a.nan \/ b.nan THEN NaN ELSE Num(a.v + b.v)

\* Every comparison with NaN is false
NumLt(a, b) == ~a.nan /\ ~b.nan /\ a.v < b.v

NumGt(a, b) == ~a.nan /\ ~b.nan /\ a.v > b.v

NumLe(a, b) == ~a.nan /\ ~b.nan /\ a.v <= b.v

Digits == <<"0", "1", "2", "3", "4", "5", "6", "7", "8", "9">>

IsDigit(c) == \E i \in DOMAIN Digits : Digits[i] = c

DigitValue(c) == (CHOOSE i \in DOMAIN Digits : Digits[i] = c) - 1

IsWhiteSpace(c) == c \in {" ", "\t", "\n", "\r"}

Upper ==
    {"A", "B", "C", "D", "E", "F", "G", "H", "I", "J", "K", "L", "M",
     "N", "O", "P", "Q", "R", "S", "T", "U", "V", "W", "X", "Y", "Z"}

Lower ==
    {"a", "b", "c", "d", "e", "f", "g", "h", "i", "j", "k", "l", "m",
     "n", "o", "p", "q", "r", "s", "t", "u", "v", "w", "x", "y", "z"}

\* The character class [A-Za-z0-9]
IsAlnum(c) == c \in Upper \/ c \in Lower \/ IsDigit(c)

\* First index >= i of s that holds no white space (Len(s) + 1 if none)
RECURSIVE SkipWhiteSpace(_, _)
SkipWhiteSpace(s, i) ==
    IF i <= Len(s) /\ IsWhiteSpace(s[i]) THEN SkipWhiteSpace(s, i + 1) ELSE i

\* Last index <= j of s that holds no white space (0 if none)
RECURSIVE SkipWhiteSpaceBack(_, _)
SkipWhiteSpaceBack(s, j) ==
    IF j >= 1 /\ IsWhiteSpace(s[j]) THEN SkipWhiteSpaceBack(s, j - 1) ELSE j

\* String.prototype.trim
Trim(s) ==
    LET a == SkipWhiteSpace(s, 1)
        b == SkipWhiteSpaceBack(s, Len(s))
    IN IF a > b THEN << >> ELSE SubSeq(s, a, b)

\* First index >= i of s that holds no digit
RECURSIVE DigitsEnd(_, _)
DigitsEnd(s, i) ==
    IF i <= Len(s) /\ IsDigit(s[i]) THEN DigitsEnd(s, i + 1) ELSE i

\* The value of the digits s[i..j-1]
RECURSIVE DigitsValue(_, _, _)
DigitsValue(s, i, j) ==
    IF j <= i THEN 0
    ELSE 10 * DigitsValue(s, i, j - 1) + DigitValue(s[j - 1])

\* parseFloat: leading white space, a sign, the longest decimal literal that
\* starts the string (no exponent among the inputs drawn); NaN if there is
\* none.  Decimals beyond FracDigits are cut.
ParseFloat(s) ==
    LET a      == SkipWhiteSpace(s, 1)
        signed == a <= Len(s) /\ s[a] \in {"+", "-"}
        neg    == signed /\ s[a] = "-"
        b      == IF signed THEN a + 1 ELSE a
        c      == DigitsEnd(s, b)
        hasDot == c <= Len(s) /\ s[c] = "."
        d      == IF hasDot THEN DigitsEnd(s, c + 1) ELSE c
        nInt   == c - b
        nFrac  == IF hasDot THEN d - (c + 1) ELSE 0
        kept   == Min(nFrac, FracDigits)
        frac   == IF hasDot
                     THEN DigitsValue(s, c + 1, c + 1 + kept)
                              * Pow10(FracDigits - kept)
                     ELSE 0
        mag    == DigitsValue(s, b, c) * Scale + frac
    IN IF nInt + nFrac = 0 THEN NaN
       ELSE Num(IF neg THEN 0 - mag ELSE mag)

\* parseInt (radix 10): leading white space, a sign, the digits that start
\* the string; NaN if there is none.  The result counts whole units.
ParseInt(s) ==
    LET a      == SkipWhiteSpace(s, 1)
        signed == a <= Len(s) /\ s[a] \in {"+", "-"}
        neg    == signed /\ s[a] = "-"
        b      == IF signed THEN a + 1 ELSE a
        c      == DigitsEnd(s, b)
        mag    == DigitsValue(s, b, c)
    IN IF c = b THEN NaN
       ELSE Num(IF neg THEN 0 - mag ELSE mag)

\* s repeated: n copies of the character c
Rep(c, n) == [i \in 1..n |-> c]

-----------------------------------------------------------------------------
(***************************************************************************)
(* App.tsx (current version, lines 1-331)                                  *)
(***************************************************************************)

\* const loadingStages = [...]
loadingStages ==
    << [progress |-> 20,  text |-> "Initializing Solana connection..."],
       [progress |-> 40,  text |-> "Loading wallet configurations..."],
       [progress |-> 60,  text |-> "Preparing trading interface..."],
       [progress |-> 80,  text |-> "Establishing secure connection..."],
       [progress |-> 100, text |-> "Ready to trade!"] >>

\* setInterval(..., 800)
IntervalMs == 800

\* setTimeout(() => onComplete(), 500)
CompleteDelayMs == 500

\* Model time passes in steps of at most TickMs milliseconds.
TickMs == 100

\* window.location.reload() is followed at most MaxReloads times.
MaxReloads == 2

\* useState initial values and the first run of the effect of LoadingScreen:
\* let currentStage = 0; const interval = setInterval(...)
LoadingScreenMount ==
    [ mounted      |-> TRUE,
      progress     |-> 0,
      loadingText  |-> "Initializing...",
      error        |-> Null,
      currentStage |-> 0,
      intervalSet  |-> TRUE,
      intervalLeft |-> IntervalMs,
      timeoutSet   |-> FALSE,
      timeoutLeft  |-> 0 ]

\* The effect's cleanup: return () => clearInterval(interval).  The timeout
\* that the last tick started is not cleared by it.
LoadingScreenUnmount(l) ==
    [l EXCEPT !.mounted = FALSE, !.intervalSet = FALSE]

\* useState initial values of TradingInterface
TradingInterfaceMount ==
    [ mounted   |-> TRUE,
      iframeUrl |-> "",
      isLoading |-> TRUE,
      loadError |-> Null,
      effectRan |-> FALSE ]

TradingInterfaceNone ==
    [ mounted   |-> FALSE,
      iframeUrl |-> "",
      isLoading |-> TRUE,
      loadError |-> Null,
      effectRan |-> FALSE ]

\* The JSX of App: isLoading ? <LoadingScreen/> : appError ? <error panel/>
\*                                                       : <TradingInterface/>
AppRender(a) ==
    IF a.isLoading THEN "LoadingScreen"
    ELSE IF a.appError # Null THEN "ApplicationError"
    ELSE "TradingInterface"

\* The JSX of TradingInterface: the error panel replaces the iframe
TradingInterfaceRender(t) ==
    IF t.loadError # Null THEN "InterfaceError"
    ELSE IF t.isLoading THEN "IframeWithOverlay"
    ELSE "Iframe"

\* const handleLoadComplete = () => setIsLoading(false)
handleLoadComplete(a) == [a EXCEPT !.isLoading = FALSE]

\* const handleError = (error) => { setAppError(error); setIsLoading(false) }
handleError(a, message) == [a EXCEPT !.appError = message, !.isLoading = FALSE]

\* One commit of React after the state cells of App changed to a2: children
\* that leave the tree are unmounted, children that enter it are mounted.
Commit(a2, l2, t2) ==
    LET v2 == AppRender(a2) IN
    /\ app' = a2
    /\ view' = v2
    /\ ls' = IF v2 = "LoadingScreen" THEN l2
             ELSE IF l2.mounted THEN LoadingScreenUnmount(l2) ELSE l2
    /\ ti' = IF v2 = "TradingInterface"
                THEN (IF t2.mounted THEN t2 ELSE TradingInterfaceMount)
                ELSE TradingInterfaceNone

IframeRendered ==
    /\ view = "TradingInterface"
    /\ ti.mounted
    /\ TradingInterfaceRender(ti) \in {"IframeWithOverlay", "Iframe"}

AppInitState ==
    /\ app = [isLoading |-> TRUE, appError |-> Null]
    /\ ls = LoadingScreenMount
    /\ ti = TradingInterfaceNone
    /\ view = "LoadingScreen"

AppInit ==
    /\ AppInitState
    /\ hist = [ stagesShown     |-> << >>,
                onCompleteCalls |-> 0,
                errorReported   |-> FALSE,
                mounts          |-> 0 ]

StagesRemainOffByOne(currentStage) == currentStage < Len(loadingStages) - 1

\* if (currentStage < loadingStages.length)
StagesRemain(currentStage) == currentStage < Len(loadingStages)

\* Time passes: up to the next expiry of a pending timer, TickMs at most.
Advance ==
    /\ \/ ls.intervalSet /\ ls.intervalLeft > 0
       \/ ls.timeoutSet /\ ls.timeoutLeft > 0
    /\ ~(ls.intervalSet /\ ls.intervalLeft = 0)
    /\ ~(ls.timeoutSet /\ ls.timeoutLeft = 0)
    /\ LET d == Min(TickMs,
                    IF ls.intervalSet THEN ls.intervalLeft ELSE ls.timeoutLeft)
       IN ls' = [ls EXCEPT
                    !.intervalLeft = IF ls.intervalSet THEN @ - d ELSE @,
                    !.timeoutLeft  = IF ls.timeoutSet THEN @ - d ELSE @]
    /\ UNCHANGED <<app, ti, view, hist>>
    /\ OnlyApp

\* The interval callback, branch currentStage < loadingStages.length
IntervalStage ==
    /\ ls.intervalSet /\ ls.intervalLeft = 0
    /\ StagesRemain(ls.currentStage)
    /\ LET stage == loadingStages[ls.currentStage + 1] IN
       /\ ls' = [ls EXCEPT !.progress = stage.progress,
                           !.loadingText = stage.text,
                           !.currentStage = @ + 1,
                           !.intervalLeft = IntervalMs]
       /\ hist' = [hist EXCEPT !.stagesShown = Append(@, stage.progress)]
    /\ UNCHANGED <<app, ti, view>>
    /\ OnlyApp

\* The interval callback, else branch: clearInterval; setTimeout(onComplete)
IntervalDone ==
    /\ ls.intervalSet /\ ls.intervalLeft = 0
    /\ ~StagesRemain(ls.currentStage)
    /\ ls' = [ls EXCEPT !.intervalSet = FALSE,
                        !.timeoutSet = TRUE,
                        !.timeoutLeft = CompleteDelayMs]
    /\ UNCHANGED <<app, ti, view, hist>>
    /\ OnlyApp

\* The interval callback when a call inside its try block throws: the catch
\* block reports the error and clears the interval.  No timeout was started.
IntervalThrows ==
    /\ ls.intervalSet /\ ls.intervalLeft = 0
    /\ \E message \in {"Loading failed"} :
         /\ Commit(handleError(app, message),
                   [ls EXCEPT !.error = message, !.intervalSet = FALSE], ti)
         /\ hist' = [hist EXCEPT !.errorReported = TRUE]
    /\ OnlyApp

\* The timeout callback: onComplete()
CompleteTimeout ==
    /\ ls.timeoutSet /\ ls.timeoutLeft = 0
    /\ Commit(handleLoadComplete(app), [ls EXCEPT !.timeoutSet = FALSE], ti)
    /\ hist' = [hist EXCEPT !.onCompleteCalls = @ + 1]
    /\ OnlyApp

\* useEffect of TradingInterface: setIframeUrl(generateIframeUrl())
IframeUrlEffect ==
    /\ ti.mounted /\ ~ti.effectRan
    /\ ti' = [ti EXCEPT !.iframeUrl = "https://www.bundlerbot.fun?...",
                        !.effectRan = TRUE]
    /\ UNCHANGED <<app, ls, view, hist>>
    /\ OnlyApp

\* The same effect when generateIframeUrl throws
IframeUrlEffectThrows ==
    /\ ti.mounted /\ ~ti.effectRan
    /\ LET message == "Failed to generate interface URL" IN
       /\ Commit(handleError(app, message), ls,
                 [ti EXCEPT !.loadError = message, !.effectRan = TRUE])
       /\ hist' = [hist EXCEPT !.errorReported = TRUE]
    /\ OnlyApp

\* handleIframeLoad
IframeLoad ==
    /\ IframeRendered
    /\ ti' = [ti EXCEPT !.isLoading = FALSE]
    /\ UNCHANGED <<app, ls, view, hist>>
    /\ OnlyApp

\* handleIframeError
IframeError ==
    /\ IframeRendered
    /\ LET message == "Failed to load trading interface" IN
       /\ Commit(handleError(app, message), ls,
                 [ti EXCEPT !.loadError = message, !.isLoading = FALSE])
       /\ hist' = [hist EXCEPT !.errorReported = TRUE]
    /\ OnlyApp

\* onClick={() => window.location.reload()} of the Application Error panel
Reload ==
    /\ view = "ApplicationError"
    /\ hist.mounts < MaxReloads
    /\ app' = [isLoading |-> TRUE, appError |-> Null]
    /\ ls' = LoadingScreenMount
    /\ ti' = TradingInterfaceNone
    /\ view' = "LoadingScreen"
    /\ hist' = [ stagesShown     |-> << >>,
                 onCompleteCalls |-> 0,
                 errorReported   |-> FALSE,
                 mounts          |-> hist.mounts + 1 ]
    /\ OnlyApp

AppNext ==
    \/ Advance
    \/ IntervalStage
    \/ IntervalDone
    \/ IntervalThrows
    \/ CompleteTimeout
    \/ IframeUrlEffect
    \/ IframeUrlEffectThrows
    \/ IframeLoad
    \/ IframeError
    \/ Reload

-----------------------------------------------------------------------------
(***************************************************************************)
(* BundleCreator (current version), TradingPanel.tsx lines 197-734         *)
(***************************************************************************)

\* /^[A-Za-z0-9]{32,44}$/
MinAddressLen == 32

MaxAddressLen == 44

\* Attempts of Create Bundle followed in one run
MaxBundles == 1

WalletTypes == {"dev", "fund", "trading"}

\* useState<Wallet[]>(externalWallets || [...]) without externalWallets
DefaultWallets ==
    << [ id |-> "1",
         address |-> "7xKXtg2CW87d97TXJSDpbD5jBkheTqA83TZRuJosgAsU",
         balance |-> ParseFloat(<<"1", ".", "5">>),
         selected |-> TRUE,
         name |-> "Dev Wallet 1",
         type |-> "dev",
         lastUsed |-> "undefined",
         transactionCount |-> 0 ],
       [ id |-> "2",
         address |-> "9WzDXwBbmkg8ZTbNMqUxvQRAyrZzDsGYdLVL9zYtAWWM",
         balance |-> ParseFloat(<<"2", ".", "3">>),
         selected |-> TRUE,
         name |-> "Fund Wallet 1",
         type |-> "fund",
         lastUsed |-> "undefined",
         transactionCount |-> 0 ],
       [ id |-> "3",
         address |-> "DQyrAcCrDXQ7NeoqGgDCZwBvWDcYmFCjSb9JtteuvPpz",
         balance |-> ParseFloat(<<"0", ".", "8">>),
         selected |-> FALSE,
         name |-> "Trading Wallet 1",
         type |-> "trading",
         lastUsed |-> "undefined",
         transactionCount |-> 0 ] >>

\* useState<BundleStats>({...})
InitialBundleStats ==
    [ totalBundles      |-> 12,
      successfulBundles |-> 10,
      totalVolume       |-> ParseFloat(<<"4", "5", ".", "6">>),
      averageGasUsed    |-> ParseFloat(<<"0", ".", "0", "0", "2", "3">>) ]

\* The useState initial values of the form; resetForm restores them
InitialForm ==
    [ tokenAddress   |-> << >>,
      buyAmount      |-> << >>,
      sellPercentage |-> <<"1", "0", "0">>,
      priorityFee    |-> <<"0", ".", "0", "0", "1">>,
      slippage       |-> <<"1", ".", "0">>,
      maxGasPrice    |-> <<"0", ".", "0", "0", "5">>,
      deadline       |-> <<"3", "0">>,
      autoApprove    |-> FALSE ]

FormFields == DOMAIN InitialForm

\* What the user types.  The numeric fields are <input type="number">, whose
\* value is the empty string or a decimal literal.  The fields that only pass
\* through to the configuration keep the value they start with.
FieldInputs ==
    [ tokenAddress   |-> { << >>, Rep("A", MinAddressLen),
                           Rep("A", MaxAddressLen + 1) },
      buyAmount      |-> { << >>, <<"1", ".", "9">> },
      sellPercentage |-> { <<"1", "0", "0">>, << >>, <<"1", "0", "1">> },
      priorityFee    |-> { <<"0", ".", "0", "0", "1">>, << >> },
      slippage       |-> { <<"1", ".", "0">> },
      maxGasPrice    |-> { <<"0", ".", "0", "0", "5">> },
      deadline       |-> { <<"3", "0">> },
      autoApprove    |-> { FALSE } ]

\* wallets.filter(w => w.selected)
RECURSIVE selectedWallets(_)
selectedWallets(wallets) ==
    IF wallets = << >> THEN << >>
    ELSE IF Head(wallets).selected
            THEN <<Head(wallets)>> \o selectedWallets(Tail(wallets))
            ELSE selectedWallets(Tail(wallets))

RECURSIVE totalBalanceOfFundWallets(_)
totalBalanceOfFundWallets(selected) ==
    IF selected = << >> THEN Num(0)
    ELSE NumPlus(totalBalanceOfFundWallets(SubSeq(selected, 1, Len(selected) - 1)),
                 IF selected[Len(selected)].type = "fund"
                    THEN selected[Len(selected)].balance ELSE Num(0))

\* selectedWallets.reduce((sum, w) => sum + w.balance, 0)
RECURSIVE totalBalance(_)
totalBalance(selected) ==
    IF selected = << >> THEN Num(0)
    ELSE NumPlus(totalBalance(SubSeq(selected, 1, Len(selected) - 1)),
                 selected[Len(selected)].balance)

\* text || '0'
OrZero(text) == IF text = << >> THEN <<"0">> ELSE text

totalInvestmentPerWallet(buyAmount, selected) ==
    ParseFloat(OrZero(buyAmount))

\* parseFloat(buyAmount || '0') * selectedWallets.length
totalInvestment(buyAmount, selected) ==
    NumTimes(ParseFloat(OrZero(buyAmount)), Len(selected))

\* parseFloat(priorityFee || '0') * selectedWallets.length
totalFees(priorityFee, selected) ==
    NumTimes(ParseFloat(OrZero(priorityFee)), Len(selected))

\* The four useMemo values as one render computes them from the state b
Memo(b) ==
    LET selected == selectedWallets(b.wallets) IN
    [ selectedWallets |-> selected,
      totalBalance    |-> totalBalance(selected),
      totalInvestment |-> totalInvestment(b.buyAmount, selected),
      totalFees       |-> totalFees(b.priorityFee, selected) ]

\* /^[A-Za-z0-9]{32,44}$/.test(address)
validateTokenAddress(address) ==
    /\ Len(address) >= MinAddressLen
    /\ Len(address) <= MaxAddressLen
    /\ \A i \in DOMAIN address : IsAlnum(address[i])

\* validateInputs, on the state b and the memo values m of the same render
validateInputs(b, m) ==
    LET token ==
            IF Trim(b.tokenAddress) = << >>
               THEN <<"Token address is required">>
            ELSE IF ~validateTokenAddress(b.tokenAddress)
               THEN <<"Invalid token address format">>
            ELSE << >>
        buy ==
            IF b.buyAmount = << >> \/ NumLe(ParseFloat(b.buyAmount), Num(0))
               THEN <<"Buy amount must be greater than 0">>
               ELSE << >>
        sell ==
            IF \/ NumLt(ParseFloat(b.sellPercentage), Num(0))
               \/ NumGt(ParseFloat(b.sellPercentage), Num(100 * Scale))
               THEN <<"Sell percentage must be between 0 and 100">>
               ELSE << >>
        count ==
            IF Len(m.selectedWallets) = 0
               THEN <<"At least one wallet must be selected">>
               ELSE << >>
        funds ==
            IF NumGt(m.totalInvestment, m.totalBalance)
               THEN <<"Total investment exceeds available balance">>
               ELSE << >>
        errors == token \o buy \o sell \o count \o funds
    IN [isValid |-> Len(errors) = 0, errors |-> errors]

\* Array.prototype.join
RECURSIVE Join(_, _)
Join(parts, separator) ==
    IF parts = << >> THEN ""
    ELSE IF Len(parts) = 1 THEN parts[1]
    ELSE parts[1] \o separator \o Join(Tail(parts), separator)

\* selectedWallets.map(w => w.address)
Addresses(selected) == [i \in DOMAIN selected |-> selected[i].address]

BundleConfigOfAllWallets(b, m) ==
    [ tokenAddress   |-> Trim(b.tokenAddress),
      buyAmount      |-> ParseFloat(b.buyAmount),
      sellPercentage |-> ParseFloat(b.sellPercentage),
      priorityFee    |-> ParseFloat(b.priorityFee),
      slippage       |-> ParseFloat(b.slippage),
      wallets        |-> Addresses(b.wallets),
      maxGasPrice    |-> ParseFloat(b.maxGasPrice),
      deadline       |-> ParseInt(b.deadline),
      autoApprove    |-> b.autoApprove ]

\* const config: BundleConfig = {...}
BundleConfig(b, m) ==
    [ tokenAddress   |-> Trim(b.tokenAddress),
      buyAmount      |-> ParseFloat(b.buyAmount),
      sellPercentage |-> ParseFloat(b.sellPercentage),
      priorityFee    |-> ParseFloat(b.priorityFee),
      slippage       |-> ParseFloat(b.slippage),
      wallets        |-> Addresses(m.selectedWallets),
      maxGasPrice    |-> ParseFloat(b.maxGasPrice),
      deadline       |-> ParseInt(b.deadline),
      autoApprove    |-> b.autoApprove ]

\* wallet.id === id ? { ...wallet, selected: !wallet.selected } : wallet
toggleWalletSelection(wallets, id) ==
    [i \in DOMAIN wallets |->
        IF wallets[i].id = id
           THEN [wallets[i] EXCEPT !.selected = ~wallets[i].selected]
           ELSE wallets[i]]

\* prev.map(wallet => ({ ...wallet, selected: true }))
selectAllWallets(wallets) ==
    [i \in DOMAIN wallets |-> [wallets[i] EXCEPT !.selected = TRUE]]

\* prev.map(wallet => ({ ...wallet, selected: false }))
deselectAllWallets(wallets) ==
    [i \in DOMAIN wallets |-> [wallets[i] EXCEPT !.selected = FALSE]]

CountTransactionsSpendingBalance(wallets) ==
    [i \in DOMAIN wallets |->
        IF wallets[i].selected
           THEN [wallets[i] EXCEPT !.transactionCount = @ + 1,
                                   !.lastUsed = "new Date()",
                                   !.balance = Num(0)]
           ELSE wallets[i]]

\* The setWallets updater of a successful creation (lines 401-405)
CountTransactions(wallets) ==
    [i \in DOMAIN wallets |->
        IF wallets[i].selected
           THEN [wallets[i] EXCEPT !.transactionCount = @ + 1,
                                   !.lastUsed = "new Date()"]
           ELSE wallets[i]]

CountBundleWithoutVolume(stats, investment) ==
    [stats EXCEPT !.totalBundles = @ + 1]

\* The setBundleStats updater of a successful creation (lines 408-412);
\* investment is the totalInvestment the suspended call closed over
CountBundle(stats, investment) ==
    [stats EXCEPT !.totalBundles = @ + 1,
                  !.totalVolume = NumPlus(@, investment)]

\* resetForm
resetForm(b) ==
    [f \in DOMAIN b |-> IF f \in FormFields THEN InitialForm[f]
                        ELSE IF f = "error" THEN Null
                        ELSE b[f]]

\* The form cells of the state b
Form(b) == [f \in FormFields |-> b[f]]

\* disabled={isLoading || !validateInputs().isValid} of the Create button
CreateDisabled(b, m) == b.isLoading \/ ~validateInputs(b, m).isValid

\* The effect of lines 398-412 and 419 on the state cells: the modal
\* closes, the wallets and the statistics are counted, isLoading is reset
CreateSucceeded(b, investment) ==
    [b EXCEPT !.isModalOpen = FALSE,
              !.wallets = CountTransactions(@),
              !.bundleStats = CountBundle(@, investment),
              !.isLoading = FALSE]

\* The useState initial values of BundleCreator mounted with these wallets
BundleCreatorMount(wallets) ==
    [ isModalOpen    |-> FALSE,
      isLoading      |-> FALSE,
      error          |-> Null,
      tokenAddress   |-> InitialForm.tokenAddress,
      buyAmount      |-> InitialForm.buyAmount,
      sellPercentage |-> InitialForm.sellPercentage,
      priorityFee    |-> InitialForm.priorityFee,
      slippage       |-> InitialForm.slippage,
      maxGasPrice    |-> InitialForm.maxGasPrice,
      deadline       |-> InitialForm.deadline,
      autoApprove    |-> InitialForm.autoApprove,
      wallets        |-> wallets,
      bundleStats    |-> InitialBundleStats ]

BundleInit ==
    /\ bc = BundleCreatorMount(DefaultWallets)
    /\ memo = Memo(bc)
    /\ inflight = << >>
    /\ out = [ attempts       |-> 0,
               calls          |-> 0,
               onCreateBundle |-> << >>,
               onError        |-> << >>,
               onWalletsUpdate |-> << DefaultWallets >> ]

\* A state change of the component followed by its render
Render(b2) ==
    /\ bc' = b2
    /\ memo' = Memo(b2)

\* A step that calls none of the callback props
NoCall ==
    out' = [out EXCEPT !.onCreateBundle = << >>, !.onError = << >>,
                       !.onWalletsUpdate = << >>]

\* A step that called setWallets, after whose render the effect of lines
\* 447-449 runs: onWalletsUpdate?.(wallets)
WalletsUpdated(wallets) ==
    out' = [out EXCEPT !.onCreateBundle = << >>, !.onError = << >>,
                       !.onWalletsUpdate = << wallets >>]

\* onClick={() => setIsModalOpen(true)}
OpenModal ==
    /\ ~bc.isModalOpen
    /\ Render([bc EXCEPT !.isModalOpen = TRUE])
    /\ UNCHANGED inflight
    /\ NoCall
    /\ OnlyBundle

\* onClose / Cancel: setIsModalOpen(false)
CloseModal ==
    /\ bc.isModalOpen
    /\ Render([bc EXCEPT !.isModalOpen = FALSE])
    /\ UNCHANGED inflight
    /\ NoCall
    /\ OnlyBundle

\* onChange of a form input: setTokenAddress, setBuyAmount, ...
EditField ==
    /\ bc.isModalOpen
    /\ \E f \in FormFields : \E value \in FieldInputs[f] :
         Render([bc EXCEPT ![f] = value])
    /\ UNCHANGED inflight
    /\ NoCall
    /\ OnlyBundle

ToggleWalletSelection ==
    /\ bc.isModalOpen
    /\ \E i \in DOMAIN bc.wallets :
         LET wallets == toggleWalletSelection(bc.wallets, bc.wallets[i].id)
         IN /\ Render([bc EXCEPT !.wallets = wallets])
            /\ WalletsUpdated(wallets)
    /\ UNCHANGED inflight
    /\ OnlyBundle

SelectAllWallets ==
    /\ bc.isModalOpen
    /\ Render([bc EXCEPT !.wallets = selectAllWallets(@)])
    /\ UNCHANGED inflight
    /\ WalletsUpdated(selectAllWallets(bc.wallets))
    /\ OnlyBundle

DeselectAllWallets ==
    /\ bc.isModalOpen
    /\ Render([bc EXCEPT !.wallets = deselectAllWallets(@)])
    /\ UNCHANGED inflight
    /\ WalletsUpdated(deselectAllWallets(bc.wallets))
    /\ OnlyBundle

ResetForm ==
    /\ bc.isModalOpen
    /\ Render(resetForm(bc))
    /\ UNCHANGED inflight
    /\ NoCall
    /\ OnlyBundle

\* handleCreateBundle up to its await (lines 371-395), started by a click on
\* the Create button, which takes no click while it is disabled
HandleCreateBundle ==
    /\ bc.isModalOpen
    /\ ~CreateDisabled(bc, memo)
    /\ out.attempts < MaxBundles
    /\ LET validation == validateInputs(bc, memo) IN
       IF ~validation.isValid
          THEN /\ Render([bc EXCEPT !.isLoading = FALSE,
                                    !.error = Join(validation.errors, ", ")])
               /\ UNCHANGED inflight
          ELSE /\ Render([bc EXCEPT !.isLoading = TRUE, !.error = Null])
               /\ inflight' = Append(inflight,
                     [ config          |-> BundleConfig(bc, memo),
                       totalInvestment |-> memo.totalInvestment,
                       pressed         |-> [ form    |-> Form(bc),
                                              wallets |-> bc.wallets ] ])
    /\ out' = [out EXCEPT !.attempts = @ + 1,
                          !.onCreateBundle = << >>, !.onError = << >>,
                          !.onWalletsUpdate = << >>]
    /\ OnlyBundle

\* handleCreateBundle after its await (lines 397-412, 419): onCreateBundle
\* returns
CreateBundleResume ==
    /\ inflight # << >>
    /\ LET call == Head(inflight) IN
       /\ out' = [out EXCEPT !.onCreateBundle = <<
                     [ config |-> call.config, pressed |-> call.pressed ] >>,
                              !.onError = << >>,
                              !.onWalletsUpdate =
                                  << CountTransactions(bc.wallets) >>,
                              !.calls = @ + 1]
       /\ Render(CreateSucceeded(bc, call.totalInvestment))
    /\ inflight' = Tail(inflight)
    /\ OnlyBundle

CreateFailedStillLoading(b, message) == [b EXCEPT !.error = message]

\* The effect of lines 414-419 on the state cells: setError(error.message)
\* in the catch block, setIsLoading(false) in the finally block
CreateFailed(b, message) ==
    [b EXCEPT !.error = message, !.isLoading = FALSE]

\* handleCreateBundle after its await when onCreateBundle throws (lines 397,
\* 414-419): an Error keeps its message, anything else is replaced
CreateBundleThrows ==
    /\ inflight # << >>
    /\ \E message \in {"onCreateBundle failed", "Failed to create bundle"} :
         /\ out' = [out EXCEPT !.onError = <<message>>,
                                !.onCreateBundle = << >>,
                                !.onWalletsUpdate = << >>]
         /\ Render(CreateFailed(bc, message))
    /\ inflight' = Tail(inflight)
    /\ OnlyBundle

BundleNext ==
    \/ OpenModal
    \/ CloseModal
    \/ EditField
    \/ ToggleWalletSelection
    \/ SelectAllWallets
    \/ DeselectAllWallets
    \/ ResetForm
    \/ HandleCreateBundle
    \/ CreateBundleResume
    \/ CreateBundleThrows

-----------------------------------------------------------------------------
(***************************************************************************)
(* Two BundleCreator instances side by side.  One is mounted with the      *)
(* default wallets, the other with the same wallets under other type tags  *)
(* (the prop externalWallets); every operation is applied to both.  A      *)
(* creation is taken here from the click to the end of the handler.        *)
(***************************************************************************)

\* The wallets with the type tag of wallet i replaced by tags[i]
Retag(wallets, tags) ==
    [i \in DOMAIN wallets |-> [wallets[i] EXCEPT !.type = tags[i]]]

\* handleCreateBundle on a click of the Create button, from the click to the
\* end of the handler, onCreateBundle returning
CreateBundleClicked(b) ==
    LET m == Memo(b) IN
    IF CreateDisabled(b, m) THEN b ELSE CreateSucceeded(b, m.totalInvestment)

PairInit ==
    pair = [ mounted |-> FALSE,
             tags    |-> [i \in DOMAIN DefaultWallets |-> DefaultWallets[i].type],
             a       |-> BundleCreatorMount(DefaultWallets),
             b       |-> BundleCreatorMount(DefaultWallets) ]

PairMount ==
    /\ ~pair.mounted
    /\ \E tags \in [DOMAIN DefaultWallets -> WalletTypes] :
         pair' = [pair EXCEPT
                    !.mounted = TRUE,
                    !.tags = tags,
                    !.b = BundleCreatorMount(Retag(DefaultWallets, tags))]
    /\ OnlyPair

PairOpenModal ==
    /\ pair.mounted /\ ~pair.a.isModalOpen
    /\ pair' = [pair EXCEPT !.a.isModalOpen = TRUE, !.b.isModalOpen = TRUE]
    /\ OnlyPair

PairEditField ==
    /\ pair.mounted /\ pair.a.isModalOpen
    /\ \E f \in FormFields : \E value \in FieldInputs[f] :
         pair' = [pair EXCEPT !.a[f] = value, !.b[f] = value]
    /\ OnlyPair

PairToggleWalletSelection ==
    /\ pair.mounted /\ pair.a.isModalOpen
    /\ \E i \in DOMAIN pair.a.wallets :
         pair' = [pair EXCEPT
            !.a.wallets = toggleWalletSelection(@, pair.a.wallets[i].id),
            !.b.wallets = toggleWalletSelection(@, pair.b.wallets[i].id)]
    /\ OnlyPair

PairSelectAllWallets ==
    /\ pair.mounted /\ pair.a.isModalOpen
    /\ pair' = [pair EXCEPT !.a.wallets = selectAllWallets(@),
                            !.b.wallets = selectAllWallets(@)]
    /\ OnlyPair

PairDeselectAllWallets ==
    /\ pair.mounted /\ pair.a.isModalOpen
    /\ pair' = [pair EXCEPT !.a.wallets = deselectAllWallets(@),
                            !.b.wallets = deselectAllWallets(@)]
    /\ OnlyPair

PairResetForm ==
    /\ pair.mounted /\ pair.a.isModalOpen
    /\ pair' = [pair EXCEPT !.a = resetForm(@), !.b = resetForm(@)]
    /\ OnlyPair

PairCreateBundle ==
    /\ pair.mounted /\ pair.a.isModalOpen
    /\ pair.a.bundleStats.totalBundles
          < InitialBundleStats.totalBundles + MaxBundles
    /\ pair' = [pair EXCEPT !.a = CreateBundleClicked(@),
                            !.b = CreateBundleClicked(@)]
    /\ OnlyPair

PairNext ==
    \/ PairMount
    \/ PairOpenModal
    \/ PairEditField
    \/ PairToggleWalletSelection
    \/ PairSelectAllWallets
    \/ PairDeselectAllWallets
    \/ PairResetForm
    \/ PairCreateBundle

-----------------------------------------------------------------------------
(***************************************************************************)
(* apiUtils.retry, encryption.ts lines 309-326                             *)
(*                                                                         *)
(* One call with its recursive calls.  The k-th invocation of fn resolves  *)
(* with the value k or rejects with the error k.  A wait is the duration   *)
(* handed to apiUtils.delay.                                               *)
(***************************************************************************)

\* retries: number = 3
DefaultRetries == 3

\* delay: number = 1000
DefaultDelay == 1000

\* The calls drawn have retries in 0..MaxRetries
MaxRetries == 4

RetryDelays == {0, 1, DefaultDelay}

ShouldRetryOnceMore(retries) == retries >= 0

\* if (retries > 0)
ShouldRetry(retries) == retries > 0

BackoffConstant(delay) == delay

\* apiUtils.retry(fn, retries - 1, delay * 2)
Backoff(delay) == delay * 2

RetryInit ==
    rt = [ pc       |-> "idle",
           retries0 |-> DefaultRetries,
           delay0   |-> DefaultDelay,
           retries  |-> DefaultRetries,
           delay    |-> DefaultDelay,
           calls    |-> 0,
           waits    |-> << >>,
           outcomes |-> << >>,
           settled  |-> "pending",
           value    |-> 0,
           error    |-> 0 ]

\* apiUtils.retry(fn, retries, delay) is called: try { return await fn() }
RetryCall ==
    /\ rt.pc \in {"idle", "done"}
    /\ \E retries \in 0..MaxRetries : \E delay \in RetryDelays :
         rt' = [ pc       |-> "fn",
                 retries0 |-> retries,
                 delay0   |-> delay,
                 retries  |-> retries,
                 delay    |-> delay,
                 calls    |-> 0,
                 waits    |-> << >>,
                 outcomes |-> << >>,
                 settled  |-> "pending",
                 value    |-> 0,
                 error    |-> 0 ]
    /\ OnlyRetry

\* fn() resolves: the value is returned through every enclosing call
FnResolves ==
    /\ rt.pc = "fn"
    /\ rt' = [rt EXCEPT !.calls = @ + 1,
                        !.outcomes = Append(@, "resolves"),
                        !.pc = "done",
                        !.settled = "resolved",
                        !.value = rt.calls + 1]
    /\ OnlyRetry

\* fn() rejects: the catch block starts the delay or rethrows
FnRejects ==
    /\ rt.pc = "fn"
    /\ IF ShouldRetry(rt.retries)
          THEN rt' = [rt EXCEPT !.calls = @ + 1,
                                !.outcomes = Append(@, "rejects"),
                                !.pc = "delay",
                                !.waits = Append(@, rt.delay)]
          ELSE rt' = [rt EXCEPT !.calls = @ + 1,
                                !.outcomes = Append(@, "rejects"),
                                !.pc = "done",
                                !.settled = "rejected",
                                !.error = rt.calls + 1]
    /\ OnlyRetry

\* The delay is over: return apiUtils.retry(fn, retries - 1, delay * 2)
DelayElapses ==
    /\ rt.pc = "delay"
    /\ rt' = [rt EXCEPT !.pc = "fn",
                        !.retries = @ - 1,
                        !.delay = Backoff(@)]
    /\ OnlyRetry

RetryNext ==
    \/ RetryCall
    \/ FnResolves
    \/ FnRejects
    \/ DelayElapses

-----------------------------------------------------------------------------
(***************************************************************************)
(* ApiService.request, encryption.ts lines 167-234                         *)
(***************************************************************************)

\* constructor(baseUrl: string = '', timeout: number = 10000)
DefaultTimeout == 10000

ApiMethods == {"GET", "POST", "PUT", "DELETE"}

HttpStatuses == {200, 404, 500}

\* response.ok
Ok(status) == status >= 200 /\ status <= 299

\* return { success: true, data }
Success(data) == [success |-> TRUE, data |-> data]

FailureRethrown(message) == [rejected |-> message]

\* catch (error) { return { success: false, error: ... } }
Failure(message) == [success |-> FALSE, error |-> message]

ClearTimeoutForgotten(request) == request

\* clearTimeout(timeoutId)
ClearTimeout(request) == [request EXCEPT !.timerSet = FALSE]

ApiInit ==
    rq = [ pc          |-> "idle",
           method      |-> "GET",
           timeout     |-> DefaultTimeout,
           elapsed     |-> 0,
           timerSet    |-> FALSE,
           aborted     |-> FALSE,
           fetchCalls  |-> 0,
           responded   |-> FALSE,
           networkFailed |-> FALSE,
           badStatus   |-> FALSE,
           badBody     |-> FALSE,
           timedOut    |-> FALSE,
           results     |-> << >> ]

\* get / post / put / delete call request: the controller and the timer are
\* made and fetch is started
Request ==
    /\ rq.pc \in {"idle", "done"}
    /\ \E method \in ApiMethods :
         rq' = [ pc          |-> "fetch",
                 method      |-> method,
                 timeout     |-> DefaultTimeout,
                 elapsed     |-> 0,
                 timerSet    |-> TRUE,
                 aborted     |-> FALSE,
                 fetchCalls  |-> 1,
                 responded   |-> FALSE,
                 networkFailed |-> FALSE,
                 badStatus   |-> FALSE,
                 badBody     |-> FALSE,
                 timedOut    |-> FALSE,
                 results     |-> << >> ]
    /\ OnlyApi

\* Time passes while the timer is pending, not beyond its expiry
ApiAdvance ==
    /\ rq.timerSet /\ rq.elapsed < rq.timeout
    /\ rq' = [rq EXCEPT !.elapsed = @ + Min(TickMs, rq.timeout - rq.elapsed)]
    /\ OnlyApi

\* fetch resolves with a response: clearTimeout; a status that is not ok is
\* thrown into the catch block, otherwise the body is read
FetchResponds ==
    /\ rq.pc = "fetch"
    /\ \E status \in HttpStatuses :
         LET cleared == [ClearTimeout(rq) EXCEPT !.responded = TRUE] IN
         IF Ok(status)
            THEN rq' = [cleared EXCEPT !.pc = "json"]
            ELSE rq' = [cleared EXCEPT
                           !.pc = "done",
                           !.badStatus = TRUE,
                           !.results = Append(@, Failure("HTTP error! status"))]
    /\ OnlyApi

\* fetch rejects (network failure): the catch block
FetchFails ==
    /\ rq.pc = "fetch"
    /\ rq' = [rq EXCEPT !.pc = "done",
                        !.networkFailed = TRUE,
                        !.results = Append(@, Failure("Failed to fetch"))]
    /\ OnlyApi

\* The timer fires: controller.abort().  A fetch or a body read under way
\* rejects with the abort error, which the catch block turns into a result.
TimerFires ==
    /\ rq.timerSet /\ rq.elapsed = rq.timeout
    /\ IF rq.pc \in {"fetch", "json"}
          THEN rq' = [rq EXCEPT
                         !.timerSet = FALSE,
                         !.aborted = TRUE,
                         !.timedOut = TRUE,
                         !.pc = "done",
                         !.results = Append(@, Failure("The operation was aborted"))]
          ELSE rq' = [rq EXCEPT !.timerSet = FALSE, !.aborted = TRUE]
    /\ OnlyApi

\* response.json() resolves
JsonParsed ==
    /\ rq.pc = "json"
    /\ \E data \in {"null", "object"} :
         rq' = [rq EXCEPT !.pc = "done",
                          !.results = Append(@, Success(data))]
    /\ OnlyApi

\* response.json() rejects: the body is no JSON, or the connection broke
JsonFails ==
    /\ rq.pc = "json"
    /\ \E message \in {"Unexpected token", "Failed to fetch"} :
         rq' = [rq EXCEPT !.pc = "done",
                          !.badBody = TRUE,
                          !.results = Append(@, Failure(message))]
    /\ OnlyApi

ApiNext ==
    \/ Request
    \/ ApiAdvance
    \/ FetchResponds
    \/ FetchFails
    \/ TimerFires
    \/ JsonParsed
    \/ JsonFails

-----------------------------------------------------------------------------
(***************************************************************************)
(* The formatters, types/index.ts lines 195-259                            *)
(*                                                                         *)
(* A string argument that may be null is a record: null or its characters. *)
(***************************************************************************)

Str(s) == [null |-> FALSE, s |-> s]

NullStr == [null |-> TRUE, s |-> << >>]

\* String.prototype.slice(start, end) for integers start and end
Slice(s, start, end) ==
    LET len  == Len(s)
        from == IF start < 0 THEN (IF len + start < 0 THEN 0 ELSE len + start)
                ELSE Min(start, len)
        to   == IF end < 0 THEN (IF len + end < 0 THEN 0 ELSE len + end)
                ELSE Min(end, len)
    IN SubSeq(s, from + 1, to)

\* String.prototype.slice(start)
SliceFrom(s, start) == Slice(s, start, Len(s))

\* The addresses drawn are null and the prefixes of one wallet address up to
\* MaxAddressChars characters; startChars and endChars are in 0..MaxChars
MaxAddressChars == 8

MaxChars == 3

SampleAddress ==
    <<"7", "x", "K", "X", "t", "g", "2", "C", "W", "8", "7", "d">>

AddressInputs ==
    {NullStr} \cup
    { Str(SubSeq(SampleAddress, 1, n)) :
        n \in 0..Min(MaxAddressChars, Len(SampleAddress)) }

\* formatAddress: -endChars is 0 when endChars is 0
formatAddress(address, startChars, endChars) ==
    IF address.null \/ address.s = << >>
          \/ Len(address.s) <= startChars + endChars
       THEN address
       ELSE Str(Slice(address.s, 0, startChars) \o <<".", ".", ".">>
                    \o SliceFrom(address.s, 0 - endChars))

\* No formatter was called yet; a behaviour holds one call
FormatInit == fmt = [fn |-> "none"]

FormatAddress ==
    /\ fmt.fn = "none"
    /\ \E address \in AddressInputs :
       \E startChars \in 0..MaxChars : \E endChars \in 0..MaxChars :
         fmt' = [ fn         |-> "formatAddress",
                  address    |-> address,
                  startChars |-> startChars,
                  endChars   |-> endChars,
                  result     |-> formatAddress(address, startChars, endChars) ]
    /\ OnlyFormat

\* The numbers given to formatNumber are integers written as a sign and
\* decimal digits: zero, and a leading 1 or 9 followed by zeros (up to
\* MaxDigits digits) or by nines (up to NineDigits digits).  Each of them is
\* a double, Math.log10 of it is on the side of every multiple of 3 that
\* the exact logarithm is on, and no rounding of it below is a tie.
MaxDigits == 16

NineDigits == 12

DecimalsInputs == {0, 2}

NumberInputs ==
    LET magnitudes ==
            { <<lead>> \o Rep("0", n - 1) :
                  lead \in {"1", "9"}, n \in 1..MaxDigits }
            \cup
            { <<lead>> \o Rep("9", n - 1) :
                  lead \in {"1", "9"}, n \in 2..NineDigits }
    IN { [neg |-> FALSE, digits |-> <<"0">>] } \cup
       { [neg |-> neg, digits |-> d] : neg \in BOOLEAN, d \in magnitudes }

\* The digits of the integer that follows the one written by digits, which
\* keeps the number of digits unless every digit is 9
RECURSIVE Increment(_)
Increment(digits) ==
    IF digits = << >> THEN <<"1">>
    ELSE LET front == SubSeq(digits, 1, Len(digits) - 1)
             last  == digits[Len(digits)]
         IN IF last = "9" THEN Increment(front) \o <<"0">>
            ELSE front \o << Digits[DigitValue(last) + 2] >>

\* Number.prototype.toFixed(decimals) of the non-negative decimal number
\* with the integer digits int and the fraction digits frac
ToFixed(int, frac, decimals) ==
    LET padded  == frac \o Rep("0", decimals + 1)
        kept    == int \o SubSeq(padded, 1, decimals)
        rounded == IF DigitValue(padded[decimals + 1]) >= 5
                      THEN Increment(kept) ELSE kept
        intLen  == Len(rounded) - decimals
    IN SubSeq(rounded, 1, intLen) \o
       (IF decimals > 0
           THEN <<".">> \o SubSeq(rounded, intLen + 1, Len(rounded))
           ELSE << >>)

\* The integer digits and the fraction digits of digits / Math.pow(1000, k)
ScaledValue(digits, k) ==
    IF Len(digits) > 3 * k
       THEN [ int  |-> SubSeq(digits, 1, Len(digits) - 3 * k),
              frac |-> SubSeq(digits, Len(digits) - 3 * k + 1, Len(digits)) ]
       ELSE [ int  |-> <<"0">>,
              frac |-> Rep("0", 3 * k - Len(digits)) \o digits ]

\* Math.floor(Math.log10(Math.abs(value)) / 3)
UnitIndex(digits) == (Len(digits) - 1) \div 3

\* const units = ['', 'K', 'M', 'B', 'T']
units == << << >>, <<"K">>, <<"M">>, <<"B">>, <<"T">> >>

\* `${units[unitIndex]}`: an index beyond the array gives undefined
UnitText(unitIndex) ==
    IF unitIndex + 1 \in DOMAIN units THEN units[unitIndex + 1]
    ELSE <<"u", "n", "d", "e", "f", "i", "n", "e", "d">>

\* The grouping of toLocaleString('en-US'): a comma before every group of
\* three digits counted from the right
RECURSIVE Grouped(_)
Grouped(digits) ==
    IF Len(digits) <= 3 THEN digits
    ELSE Grouped(SubSeq(digits, 1, Len(digits) - 3)) \o <<",">>
            \o SubSeq(digits, Len(digits) - 2, Len(digits))

\* value.toLocaleString('en-US', {minimumFractionDigits: decimals,
\* maximumFractionDigits: decimals}) of an integer
ToLocaleString(value, decimals) ==
    (IF value.neg THEN <<"-">> ELSE << >>) \o Grouped(value.digits) \o
    (IF decimals > 0 THEN <<".">> \o Rep("0", decimals) ELSE << >>)

\* formatNumber(value, {decimals, compact, currency, percentage})
formatNumber(value, decimals, compact, currency, percentage) ==
    LET sign == IF value.neg THEN <<"-">> ELSE << >> IN
    IF percentage
       THEN sign \o ToFixed(IF value.digits = <<"0">> THEN <<"0">>
                            ELSE value.digits \o <<"0", "0">>,
                            << >>, decimals) \o <<"%">>
    ELSE IF compact /\ Len(value.digits) >= 4
       THEN LET unitIndex   == UnitIndex(value.digits)
                scaledValue == ScaledValue(value.digits, unitIndex)
            IN (IF currency THEN <<"$">> ELSE << >>) \o sign
                  \o ToFixed(scaledValue.int, scaledValue.frac, decimals)
                  \o UnitText(unitIndex)
    ELSE (IF currency THEN <<"$">> ELSE << >>)
            \o ToLocaleString(value, decimals)

FormatNumber ==
    /\ fmt.fn = "none"
    /\ \E value \in NumberInputs : \E decimals \in DecimalsInputs :
       \E compact \in BOOLEAN : \E currency \in BOOLEAN :
       \E percentage \in BOOLEAN :
         fmt' = [ fn         |-> "formatNumber",
                  value      |-> value,
                  decimals   |-> decimals,
                  compact    |-> compact,
                  currency   |-> currency,
                  percentage |-> percentage,
                  result     |-> formatNumber(value, decimals, compact,
                                              currency, percentage) ]
    /\ OnlyFormat

\* Milliseconds of a minute, an hour and a day: the divisors of formatTime
MinuteMs == 60000

HourMs == 3600000

DayMs == 86400000

\* The clock readings drawn for new Date(), in ms after an origin
NowInputs == {2000000000, 2000059999}

\* The elapsed times drawn are the multiples k of a minute, an hour and a day
\* for k up to MaxUnits, and the multiples at which a form gives way to the
\* next one, each one also 1 ms less and 1 ms more; a timestamp lies
\* in the future of the clock where the elapsed time is negative
MaxUnits == 8

ElapsedInputs ==
    { k * unit + d :
        unit \in {MinuteMs, HourMs},
        k \in (0..MaxUnits) \cup {23, 24, 59, 60},
        d \in {-1, 0, 1} }
    \cup { k * DayMs + d : k \in 0..MaxUnits, d \in {-1, 0, 1} }
    \cup { 0 - DayMs }

\* formatTime(timestamp), the clock reading now at the call
formatTime(timestamp, now) ==
    LET diffMs    == now - timestamp
        diffMins  == diffMs \div MinuteMs
        diffHours == diffMs \div HourMs
        diffDays  == diffMs \div DayMs
    IN IF diffMins < 1 THEN [form |-> "Just now", n |-> 0]
       ELSE IF diffMins < 60 THEN [form |-> "m ago", n |-> diffMins]
       ELSE IF diffHours < 24 THEN [form |-> "h ago", n |-> diffHours]
       ELSE IF diffDays < 7 THEN [form |-> "d ago", n |-> diffDays]
       ELSE [form |-> "toLocaleDateString", n |-> timestamp]

FormatTime ==
    /\ fmt.fn = "none"
    /\ \E now \in NowInputs : \E elapsed \in ElapsedInputs :
         fmt' = [ fn        |-> "formatTime",
                  now       |-> now,
                  timestamp |-> now - elapsed,
                  result    |-> formatTime(now - elapsed, now) ]
    /\ OnlyFormat

\* The character class [1-9A-HJ-NP-Za-km-z]
IsBase58(c) == IsAlnum(c) /\ c \notin {"0", "I", "O", "l"}

\* validators.solanaAddress: /^[1-9A-HJ-NP-Za-km-z]{32,44}$/.test(address)
solanaAddress(address) ==
    /\ Len(address) >= MinAddressLen
    /\ Len(address) <= MaxAddressLen
    /\ \A i \in DOMAIN address : IsBase58(address[i])

\* validateSolanaAddress: the same test inside a try block; test of a string
\* does not throw
validateSolanaAddress(address) ==
    /\ Len(address) >= MinAddressLen
    /\ Len(address) <= MaxAddressLen
    /\ \A i \in DOMAIN address : IsBase58(address[i])

\* The strings given to the validators: one character repeated, of a length
\* around the two ends of {32,44}, with another character at one place
FillChars == {"7", "k"}

OddChars == {"7", "0", "1", "9", "I", "H", "O", "P", "l", "m", "-", " "}

LengthInputs ==
    {MinAddressLen - 1, MinAddressLen, MinAddressLen + 1,
     MaxAddressLen - 1, MaxAddressLen, MaxAddressLen + 1}

CandidateAddress(fill, odd, at, len) ==
    [i \in 1..len |-> IF i = at THEN odd ELSE fill]

\* One string is given to the three validators
ValidateAddress ==
    /\ fmt.fn = "none"
    /\ \E fill \in FillChars : \E odd \in OddChars : \E len \in LengthInputs :
       \E at \in {1, len} :
         LET address == CandidateAddress(fill, odd, at, len) IN
         fmt' = [ fn                    |-> "validate",
                  address               |-> address,
                  validateTokenAddress  |-> validateTokenAddress(address),
                  solanaAddress         |-> solanaAddress(address),
                  validateSolanaAddress |-> validateSolanaAddress(address) ]
    /\ OnlyFormat

FormatNext ==
    \/ FormatAddress
    \/ FormatNumber
    \/ FormatTime
    \/ ValidateAddress

-----------------------------------------------------------------------------
(***************************************************************************)
(* JSON.stringify and JSON.parse                                           *)
(*                                                                         *)
(* The values are null, the booleans, the naturals, the strings of         *)
(* letters, the arrays of those, and an object that refers to itself       *)
(* (which JSON.stringify refuses).  A text is a sequence of characters.    *)
(***************************************************************************)

JNull == [t |-> "null"]

JBool(b) == [t |-> "boolean", bool |-> b]

JNum(n) == [t |-> "number", num |-> n]

JStr(s) == [t |-> "string", str |-> s]

JArr(a) == [t |-> "array", arr |-> a]

JCircular == [t |-> "circular"]

\* The decimal digits of the natural n
RECURSIVE NatToText(_)
NatToText(n) ==
    IF n < 10 THEN << Digits[n + 1] >>
    ELSE NatToText(n \div 10) \o << Digits[(n % 10) + 1] >>

Quote == "\""

\* JSON.stringify of a value that is no array
StringifyAtom(value) ==
    CASE value.t = "null"    -> <<"n", "u", "l", "l">>
      [] value.t = "boolean" -> IF value.bool THEN <<"t", "r", "u", "e">>
                                ELSE <<"f", "a", "l", "s", "e">>
      [] value.t = "number"  -> NatToText(value.num)
      [] value.t = "string"  -> <<Quote>> \o value.str \o <<Quote>>

\* The texts of parts with a comma between each two
RECURSIVE JoinTexts(_)
JoinTexts(parts) ==
    IF parts = << >> THEN << >>
    ELSE IF Len(parts) = 1 THEN parts[1]
    ELSE parts[1] \o <<",">> \o JoinTexts(Tail(parts))

\* JSON.stringify(value): the text, or a TypeError
JsonStringify(value) ==
    IF value.t = "circular" THEN [throws |-> TRUE, text |-> << >>]
    ELSE IF value.t = "array"
       THEN [ throws |-> FALSE,
              text   |-> <<"[">>
                           \o JoinTexts([i \in DOMAIN value.arr |->
                                             StringifyAtom(value.arr[i])])
                           \o <<"]">> ]
    ELSE [throws |-> FALSE, text |-> StringifyAtom(value)]

NoValue == [ok |-> FALSE, value |-> JNull]

Parsed(value) == [ok |-> TRUE, value |-> value]

\* JSON.parse of a text that holds no array: the value, or a SyntaxError
ParseAtom(text) ==
    IF text = <<"n", "u", "l", "l">> THEN Parsed(JNull)
    ELSE IF text = <<"t", "r", "u", "e">> THEN Parsed(JBool(TRUE))
    ELSE IF text = <<"f", "a", "l", "s", "e">> THEN Parsed(JBool(FALSE))
    ELSE IF text # << >> /\ \A i \in DOMAIN text : IsDigit(text[i])
       THEN IF Len(text) > 1 /\ text[1] = "0" THEN NoValue
            ELSE Parsed(JNum(DigitsValue(text, 1, Len(text) + 1)))
    ELSE IF Len(text) >= 2 /\ text[1] = Quote /\ text[Len(text)] = Quote
       THEN LET inner == SubSeq(text, 2, Len(text) - 1) IN
            IF \A i \in DOMAIN inner :
                  inner[i] \in Upper \/ inner[i] \in Lower
               THEN Parsed(JStr(inner)) ELSE NoValue
    ELSE NoValue

\* The texts between the commas of text
RECURSIVE SplitAtCommas(_)
SplitAtCommas(text) ==
    IF \A i \in DOMAIN text : text[i] # ","
       THEN << text >>
       ELSE LET i == CHOOSE i \in DOMAIN text :
                        text[i] = "," /\ \A j \in 1..(i - 1) : text[j] # ","
            IN << SubSeq(text, 1, i - 1) >>
                  \o SplitAtCommas(SubSeq(text, i + 1, Len(text)))

\* JSON.parse(text): the value, or a SyntaxError
JsonParse(text) ==
    IF Len(text) >= 2 /\ text[1] = "[" /\ text[Len(text)] = "]"
       THEN LET inner == SubSeq(text, 2, Len(text) - 1)
                parts == IF inner = << >> THEN << >>
                         ELSE SplitAtCommas(inner)
                atoms == [i \in DOMAIN parts |-> ParseAtom(parts[i])]
            IN IF \A i \in DOMAIN atoms : atoms[i].ok
                  THEN Parsed(JArr([i \in DOMAIN atoms |-> atoms[i].value]))
                  ELSE NoValue
       ELSE ParseAtom(text)

-----------------------------------------------------------------------------
(***************************************************************************)
(* useLocalStorage, hooks/useLocalStorage.ts lines 4-32                    *)
(*                                                                         *)
(* window.localStorage holds a text or nothing under each key.  Other code *)
(* of the page writes to it and removes from it as well.  lastSet keeps,   *)
(* per key, the value that setValue wrote last while its text is still the *)
(* entry.                                                                  *)
(***************************************************************************)

StorageKeys == {"settings", "wallets"}

Absent == [present |-> FALSE, text |-> << >>]

Item(text) == [present |-> TRUE, text |-> text]

NotSet == [set |-> FALSE, value |-> JNull]

\* The values given to setValue; false, 0, null and '' are falsy
ValueInputs ==
    { JNull, JBool(FALSE), JNum(0), JNum(12), JStr(<< >>),
      JStr(<<"a", "b">>), JArr(<< JNum(1), JStr(<<"a">>) >>) }

InitialValueInputs == { JNum(7), JArr(<< >>) }

\* Entries that other code left: '', 'undefined', '{' and '[1,]'
ForeignTexts ==
    { << >>, <<"u", "n", "d", "e", "f", "i", "n", "e", "d">>, <<"{">>,
      <<"[", "1", ",", "]">> }

ReadRethrown(initialValue) == [threw |-> TRUE, value |-> initialValue]

\* catch (error) { console.warn(...); return initialValue }
ReadFailed(initialValue) == [threw |-> FALSE, value |-> initialValue]

ReadStoredUnparsed(item, initialValue) ==
    IF item.present /\ item.text # << >>
       THEN [threw |-> FALSE, value |-> JStr(item.text)]
       ELSE [threw |-> FALSE, value |-> initialValue]

\* The initializer of useState: item ? JSON.parse(item) : initialValue
ReadStored(item, initialValue) ==
    IF item.present /\ item.text # << >>
       THEN LET parsed == JsonParse(item.text) IN
            IF parsed.ok THEN [threw |-> FALSE, value |-> parsed.value]
            ELSE ReadFailed(initialValue)
       ELSE [threw |-> FALSE, value |-> initialValue]

HookInit ==
    uls = [ items        |-> [k \in StorageKeys |-> Absent],
            lastSet      |-> [k \in StorageKeys |-> NotSet],
            mounted      |-> FALSE,
            key          |-> "settings",
            initialValue |-> JNull,
            storedValue  |-> JNull,
            rendered     |-> JNull,
            threw        |-> FALSE ]

\* A component that calls useLocalStorage(key, initialValue) is mounted
HookMount ==
    /\ ~uls.mounted
    /\ \E key \in StorageKeys : \E initialValue \in InitialValueInputs :
         LET read == ReadStored(uls.items[key], initialValue) IN
         uls' = [uls EXCEPT !.mounted = TRUE,
                            !.key = key,
                            !.initialValue = initialValue,
                            !.storedValue = read.value,
                            !.rendered = read.value,
                            !.threw = @ \/ read.threw]
    /\ OnlyHook

HookUnmount ==
    /\ uls.mounted
    /\ uls' = [uls EXCEPT !.mounted = FALSE,
                          !.initialValue = JNull,
                          !.storedValue = JNull,
                          !.rendered = JNull]
    /\ OnlyHook

\* React renders the component again after a state change: the hook returns
\* the state cell and a new setValue that closes over it
HookRender ==
    /\ uls.mounted
    /\ uls.rendered # uls.storedValue
    /\ uls' = [uls EXCEPT !.rendered = uls.storedValue]
    /\ OnlyHook

\* setValue(value) with a value that is no function: setStoredValue, then
\* setItem(key, JSON.stringify(value)); stringify or setItem (the quota is
\* exceeded) may throw into the catch block
SetValue ==
    /\ uls.mounted
    /\ \E value \in ValueInputs \cup {JCircular} : \E quotaExceeded \in BOOLEAN :
         LET json == JsonStringify(value) IN
         IF json.throws \/ quotaExceeded
            THEN uls' = [uls EXCEPT !.storedValue = value]
            ELSE uls' = [uls EXCEPT
                           !.storedValue = value,
                           !.items[uls.key] = Item(json.text),
                           !.lastSet[uls.key] = [set |-> TRUE, value |-> value]]
    /\ OnlyHook

\* false, 0, null and '' are the falsy values drawn
IsFalsy(value) ==
    value \in {JNull, JBool(FALSE), JNum(0), JStr(<< >>)}

\* The updater functions given to setValue: prev => !prev and prev => prev
UpdaterInputs == {"not", "same"}

Apply(updater, prev) ==
    IF updater = "not" THEN JBool(IsFalsy(prev)) ELSE prev

\* value(storedValue), line 23: storedValue is the constant of the render
\* that made this setValue
ApplyUpdater(updater, u) == Apply(updater, u.rendered)

\* setValue(updater) with a function, called on the setValue of the last
\* render
CallWithUpdater(updater, quotaExceeded) ==
    /\ uls.mounted
    /\ LET valueToStore == ApplyUpdater(updater, uls)
           json == JsonStringify(valueToStore)
       IN
       IF json.throws \/ quotaExceeded
          THEN uls' = [uls EXCEPT !.storedValue = valueToStore]
          ELSE uls' = [uls EXCEPT
                         !.storedValue = valueToStore,
                         !.items[uls.key] = Item(json.text),
                         !.lastSet[uls.key] =
                             [set |-> TRUE, value |-> valueToStore]]
    /\ OnlyHook

SetValueUpdater ==
    \E updater \in UpdaterInputs : \E quotaExceeded \in BOOLEAN :
        CallWithUpdater(updater, quotaExceeded)

\* Other code calls localStorage.setItem(key, text)
StorageSetItem ==
    /\ \E key \in StorageKeys : \E text \in ForeignTexts :
         uls' = [uls EXCEPT !.items[key] = Item(text),
                            !.lastSet[key] = NotSet]
    /\ OnlyHook

\* Other code calls localStorage.removeItem(key)
StorageRemoveItem ==
    /\ \E key \in StorageKeys :
         /\ uls.items[key].present
         /\ uls' = [uls EXCEPT !.items[key] = Absent,
                               !.lastSet[key] = NotSet]
    /\ OnlyHook

HookNext ==
    \/ HookMount
    \/ HookUnmount
    \/ HookRender
    \/ SetValue
    \/ SetValueUpdater
    \/ StorageSetItem
    \/ StorageRemoveItem

-----------------------------------------------------------------------------
(***************************************************************************)
(* EncryptionService, utils/encryption.ts lines 5-66                       *)
(*                                                                         *)
(* CryptoJS.AES with a passphrase: the text is encoded as UTF-8, padded    *)
(* (Pkcs7) to whole blocks of 16 bytes and enciphered under a key derived  *)
(* from the passphrase and a random salt.  Deciphering takes the last byte *)
(* for the number of padding bytes without looking at the others, and      *)
(* decodes what is left as UTF-8.  Nothing authenticates the data: under   *)
(* another key the blocks decipher to other bytes.  An encrypted datum is  *)
(* kept as the passphrase, the salt and the padded bytes it enciphers,     *)
(* with the bytes that SECRET_KEY gets from it where the passphrase is     *)
(* another one.                                                            *)
(***************************************************************************)

\* process.env.REACT_APP_ENCRYPTION_KEY || 'default-secret-key'
SECRET_KEY == "default-secret-key"

BlockBytes == 16

\* The characters of the codes 32 to 126 (the grave accent by its code)
Ascii ==
    << " ", "!", "\"", "#", "$", "%", "&", "'", "(", ")", "*", "+",
       ",", "-", ".", "/", "0", "1", "2", "3", "4", "5", "6", "7",
       "8", "9", ":", ";", "<", "=", ">", "?", "@", "A", "B", "C",
       "D", "E", "F", "G", "H", "I", "J", "K", "L", "M", "N", "O",
       "P", "Q", "R", "S", "T", "U", "V", "W", "X", "Y", "Z", "[",
       "\\", "]", "^", "_", "U+96", "a", "b", "c", "d", "e", "f", "g",
       "h", "i", "j", "k", "l", "m", "n", "o", "p", "q", "r", "s",
       "t", "u", "v", "w", "x", "y", "z", "{", "|", "}", "~" >>

CharCode(c) == 31 + (CHOOSE i \in DOMAIN Ascii : Ascii[i] = c)

\* The character of a code; the others are written as their code
CodeChar(code) ==
    IF code \in 32..126 THEN Ascii[code - 31] ELSE "U+" \o ToString(code)

\* CryptoJS.enc.Utf8.parse of a text of the characters above
Utf8Parse(text) == [i \in DOMAIN text |-> CharCode(text[i])]

\* The code points of well-formed UTF-8 bytes, or malformed
RECURSIVE Utf8Decode(_)
Utf8Decode(bytes) ==
    IF bytes = << >> THEN [malformed |-> FALSE, codes |-> << >>]
    ELSE LET b == bytes[1]
             n == IF b < 128 THEN 0
                  ELSE IF b \in 194..223 THEN 1
                  ELSE IF b \in 224..239 THEN 2
                  ELSE IF b \in 240..244 THEN 3
                  ELSE 4
         IN IF n = 4 \/ Len(bytes) < n + 1
               \/ \E i \in 2..(n + 1) : bytes[i] \notin 128..191
               THEN [malformed |-> TRUE, codes |-> << >>]
               ELSE LET rest == Utf8Decode(SubSeq(bytes, n + 2, Len(bytes)))
                        code == IF n = 0 THEN b
                                ELSE IF n = 1
                                   THEN (b - 192) * 64 + (bytes[2] - 128)
                                ELSE IF n = 2
                                   THEN (b - 224) * 4096
                                        + (bytes[2] - 128) * 64
                                        + (bytes[3] - 128)
                                ELSE (b - 240) * 262144
                                     + (bytes[2] - 128) * 4096
                                     + (bytes[3] - 128) * 64
                                     + (bytes[4] - 128)
                    IN IF rest.malformed THEN rest
                       ELSE [malformed |-> FALSE,
                             codes     |-> << code >> \o rest.codes]

\* bytes.toString(CryptoJS.enc.Utf8): the text, or 'Malformed UTF-8 data'
Utf8Stringify(bytes) ==
    LET decoded == Utf8Decode(bytes) IN
    [ throws |-> decoded.malformed,
      text   |-> [i \in DOMAIN decoded.codes |-> CodeChar(decoded.codes[i])] ]

\* CryptoJS.pad.Pkcs7.pad: one to sixteen bytes, each the number of them
Pkcs7Pad(bytes) ==
    LET n == BlockBytes - (Len(bytes) % BlockBytes) IN
    bytes \o [i \in 1..n |-> n]

\* CryptoJS.pad.Pkcs7.unpad: sigBytes -= the last byte; a WordArray of
\* sigBytes <= 0 holds nothing
Pkcs7Unpad(bytes) ==
    IF bytes = << >> THEN << >>
    ELSE LET sigBytes == Len(bytes) - bytes[Len(bytes)] IN
         IF sigBytes <= 0 THEN << >> ELSE SubSeq(bytes, 1, sigBytes)

\* The OpenSSL-formatted output of CryptoJS.AES.encrypt
Cipher(passphrase, salt, bytes, yields) ==
    [ kind       |-> "cipher",
      passphrase |-> passphrase,
      salt       |-> salt,
      bytes      |-> bytes,
      yields     |-> yields ]

\* A text that is no output of CryptoJS.AES.encrypt and shorter than a block
PlainText(text) == [kind |-> "text", text |-> text]

\* CryptoJS.AES.encrypt(data, passphrase).toString() with the salt drawn
AesEncrypt(data, passphrase, salt) ==
    Cipher(passphrase, salt, Pkcs7Pad(Utf8Parse(data)), << >>)

\* CryptoJS.AES.decrypt(encryptedData, passphrase)
AesDecrypt(encryptedData, passphrase) ==
    IF encryptedData.kind = "text" THEN << >>
    ELSE IF encryptedData.passphrase = passphrase
       THEN Pkcs7Unpad(encryptedData.bytes)
    ELSE Pkcs7Unpad(encryptedData.yields)

Returned(value) == [threw |-> FALSE, error |-> "none", value |-> value]

Thrown(error) == [threw |-> TRUE, error |-> error, value |-> << >>]

\* encrypt(data), lines 22-30
encrypt(data, salt) == Returned(AesEncrypt(data, SECRET_KEY, salt))

\* decrypt(encryptedData), lines 32-46
decrypt(encryptedData) ==
    LET decrypted == Utf8Stringify(AesDecrypt(encryptedData, SECRET_KEY)) IN
    IF decrypted.throws \/ decrypted.text = << >>
       THEN Thrown("Failed to decrypt data")
       ELSE Returned(decrypted.text)

\* encryptObject(obj), lines 48-56
encryptObject(obj, salt) ==
    LET jsonString == JsonStringify(obj) IN
    IF jsonString.throws THEN Thrown("Failed to encrypt object")
    ELSE encrypt(jsonString.text, salt)

\* decryptObject(encryptedData), lines 58-66
decryptObject(encryptedData) ==
    LET decryptedString == decrypt(encryptedData) IN
    IF decryptedString.threw THEN Thrown("Failed to decrypt object")
    ELSE LET parsed == JsonParse(decryptedString.value) IN
         IF parsed.ok THEN Returned(parsed.value)
         ELSE Thrown("Failed to decrypt object")

MaxSalt == 1

SaltInputs == 0..MaxSalt

\* '', 'a', 'hello', '{' and '12'
StringInputs ==
    { << >>, <<"a">>, <<"h", "e", "l", "l", "o">>, <<"{">>, <<"1", "2">> }

Hello == Pkcs7Pad(Utf8Parse(<<"h", "e", "l", "l", "o">>))

\* Outputs of CryptoJS.AES.encrypt('hello', 'another-key') with the block
\* that AES-256-CBC gives for them under the key of 'default-secret-key':
\* U2FsdGVkX18AAAAAAD/eOtMy3DFmxzqYrzq/TStTBcc= (one byte is left, '|'),
\* U2FsdGVkX18AAAAAAEytMDgeWY9hW7tbCsaXCY+qwE4= (three bytes, 'B."'),
\* U2FsdGVkX18AAAAAAAAADIqM+CPpxwt6XCYt1VBsErI= (four bytes, no UTF-8),
\* U2FsdGVkX18AAAAAAAAAAUZibqXD+7cylD1g9Beuwbc= (nothing is left)
OtherKeyData ==
    { Cipher("another-key", 4185658, Hello,
             << 124, 144, 202, 168, 114, 59, 203, 37,
                111, 26, 1, 133, 205, 54, 7, 15 >>),
      Cipher("another-key", 5025072, Hello,
             << 66, 46, 34, 179, 75, 142, 43, 211,
                135, 84, 23, 73, 35, 228, 144, 13 >>),
      Cipher("another-key", 12, Hello,
             << 178, 181, 193, 7, 197, 52, 221, 175,
                175, 235, 206, 146, 182, 204, 50, 12 >>),
      Cipher("another-key", 1, Hello,
             << 88, 241, 75, 204, 9, 176, 81, 2,
                147, 241, 186, 190, 113, 149, 219, 58 >>) }

\* Data that encrypt did not produce with SECRET_KEY
ForeignData ==
    OtherKeyData \cup { PlainText(<<"a", "b", "c">>), PlainText(<<"{">>) }

NoCallYet == [fn |-> "none", threw |-> FALSE, error |-> "none"]

\* data: the datum at hand; from: the call that made it and its argument;
\* call: the last call of the service and its outcome
EncryptionInit ==
    enc = [ data |-> PlainText(<< >>),
            from |-> [fn |-> "none"],
            call |-> NoCallYet ]

Encrypt ==
    /\ \E data \in StringInputs : \E salt \in SaltInputs :
         LET r == encrypt(data, salt) IN
         enc' = [ data |-> r.value,
                  from |-> [fn |-> "encrypt", text |-> data],
                  call |-> [fn |-> "encrypt", threw |-> r.threw,
                            error |-> r.error] ]
    /\ OnlyEncryption

EncryptObject ==
    /\ \E obj \in ValueInputs \cup {JCircular} : \E salt \in SaltInputs :
         LET r == encryptObject(obj, salt) IN
         IF r.threw
            THEN enc' = [enc EXCEPT !.call = [fn |-> "encryptObject",
                                              threw |-> TRUE,
                                              error |-> r.error]]
            ELSE enc' = [ data |-> r.value,
                          from |-> [fn |-> "encryptObject", obj |-> obj],
                          call |-> [fn |-> "encryptObject", threw |-> FALSE,
                                    error |-> "none"] ]
    /\ OnlyEncryption

\* Data comes from elsewhere: another build, another page, an edited entry
ReceiveData ==
    /\ \E data \in ForeignData :
         enc' = [ data |-> data,
                  from |-> [fn |-> "elsewhere"],
                  call |-> NoCallYet ]
    /\ OnlyEncryption

Decrypt ==
    /\ enc.from.fn # "none"
    /\ LET r == decrypt(enc.data) IN
       enc' = [enc EXCEPT !.call =
                  IF r.threw
                     THEN [fn |-> "decrypt", threw |-> TRUE, error |-> r.error]
                     ELSE [fn |-> "decrypt", threw |-> FALSE,
                           error |-> "none", text |-> r.value]]
    /\ OnlyEncryption

DecryptObject ==
    /\ enc.from.fn # "none"
    /\ LET r == decryptObject(enc.data) IN
       enc' = [enc EXCEPT !.call =
                  IF r.threw
                     THEN [fn |-> "decryptObject", threw |-> TRUE,
                           error |-> r.error]
                     ELSE [fn |-> "decryptObject", threw |-> FALSE,
                           error |-> "none", obj |-> r.value]]
    /\ OnlyEncryption

EncryptionNext ==
    \/ Encrypt
    \/ EncryptObject
    \/ ReceiveData
    \/ Decrypt
    \/ DecryptObject

-----------------------------------------------------------------------------
(***************************************************************************)
(* secureStorage, utils/encryption.ts lines 88-116                         *)
(*                                                                         *)
(* The same window.localStorage, seen as the data under each key.  Other   *)
(* code of the page writes to it as well.  lastSet keeps, per key, the     *)
(* value that setItem stored last while its data is still the entry.       *)
(***************************************************************************)

NoEntry == [present |-> FALSE]

Entry(data) == [present |-> TRUE, data |-> data]

\* What other code leaves under a key: data of another key, plain texts, ''
ForeignEntries == ForeignData \cup { PlainText(<< >>) }

SecureInit ==
    sec = [ items   |-> [k \in StorageKeys |-> NoEntry],
            lastSet |-> [k \in StorageKeys |-> NotSet],
            call    |-> [fn |-> "none"],
            threw   |-> FALSE ]

\* setItem(key, value), lines 89-96; logged: the catch block ran
SecureSetItem ==
    /\ \E key \in StorageKeys : \E value \in ValueInputs \cup {JCircular} :
       \E salt \in SaltInputs : \E quotaExceeded \in BOOLEAN :
         LET encrypted == encryptObject(value, salt) IN
         IF encrypted.threw \/ quotaExceeded
            THEN sec' = [sec EXCEPT !.call = [fn |-> "setItem", key |-> key,
                                              logged |-> TRUE]]
            ELSE sec' = [sec EXCEPT
                           !.items[key] = Entry(encrypted.value),
                           !.lastSet[key] = [set |-> TRUE, value |-> value],
                           !.call = [fn |-> "setItem", key |-> key,
                                     logged |-> FALSE]]
    /\ OnlySecure

GetRethrown(error) == Thrown(error)

\* catch (error) { console.error(...); return null }
GetFailed(error) == Returned(JNull)

\* getItem(key), lines 98-107, on the entry of the key
getItem(entry) ==
    IF ~entry.present THEN Returned(JNull)
    ELSE IF entry.data = PlainText(<< >>) THEN Returned(JNull)
    ELSE LET decrypted == decryptObject(entry.data) IN
         IF decrypted.threw THEN GetFailed(decrypted.error)
         ELSE decrypted

SecureGetItem ==
    /\ \E key \in StorageKeys :
         LET r == getItem(sec.items[key]) IN
         sec' = [sec EXCEPT
                   !.call = IF r.threw
                               THEN [fn |-> "getItem", key |-> key,
                                     error |-> r.error]
                               ELSE [fn |-> "getItem", key |-> key,
                                     value |-> r.value],
                   !.threw = @ \/ r.threw]
    /\ OnlySecure

\* removeItem(key), lines 109-111
SecureRemoveItem ==
    /\ \E key \in StorageKeys :
         sec' = [sec EXCEPT !.items[key] = NoEntry,
                            !.lastSet[key] = NotSet,
                            !.call = [fn |-> "removeItem", key |-> key]]
    /\ OnlySecure

\* clear(), lines 113-115
SecureClear ==
    /\ sec' = [sec EXCEPT !.items = [k \in StorageKeys |-> NoEntry],
                          !.lastSet = [k \in StorageKeys |-> NotSet],
                          !.call = [fn |-> "clear"]]
    /\ OnlySecure

\* Other code calls localStorage.setItem(key, data)
SecureForeignWrite ==
    /\ \E key \in StorageKeys : \E data \in ForeignEntries :
         sec' = [sec EXCEPT !.items[key] = Entry(data),
                            !.lastSet[key] = NotSet,
                            !.call = [fn |-> "none"]]
    /\ OnlySecure

SecureNext ==
    \/ SecureSetItem
    \/ SecureGetItem
    \/ SecureRemoveItem
    \/ SecureClear
    \/ SecureForeignWrite

-----------------------------------------------------------------------------
(***************************************************************************)
(* The setup script, unnamed/part_002                                      *)
(*                                                                         *)
(* One run of the script under a Node.js of some version, in a project     *)
(* directory where some of its directories and files exist already.        *)
(***************************************************************************)

MaxMajor == 22

MaxMinor == 17

MajorInputs == 0..MaxMajor

MinorInputs == {0, MaxMinor}

PatchInputs == {0, 1}

\* process.version of Node.js major.minor.patch
VersionText(major, minor, patch) ==
    <<"v">> \o NatToText(major) \o <<".">> \o NatToText(minor)
            \o <<".">> \o NatToText(patch)

requiredVersion == <<"v", "1", "6", ".", "0", ".", "0">>

\* a < b of two strings: by the code units from the left, a proper prefix
\* being less
RECURSIVE StringLess(_, _)
StringLess(a, b) ==
    IF b = << >> THEN FALSE
    ELSE IF a = << >> THEN TRUE
    ELSE IF CharCode(a[1]) < CharCode(b[1]) THEN TRUE
    ELSE IF CharCode(a[1]) > CharCode(b[1]) THEN FALSE
    ELSE StringLess(Tail(a), Tail(b))

directories == {"build", "logs", "temp", "uploads"}

\* The directories that exist before the run
ExistingInputs == { {}, {"build"}, directories }

SetupInit ==
    setup = [ pc          |-> "idle",
              node        |-> [major |-> 0, minor |-> 0, patch |-> 0],
              nodeVersion |-> << >>,
              existing    |-> {},
              env         |-> FALSE,
              envExample  |-> FALSE,
              passed      |-> FALSE,
              created     |-> {},
              copied      |-> FALSE,
              installed   |-> FALSE,
              built       |-> FALSE,
              exit        |-> "none" ]

\* node scripts/setup.js, lines 1-11
SetupStart ==
    /\ setup.pc = "idle"
    /\ \E major \in MajorInputs : \E minor \in MinorInputs :
       \E patch \in PatchInputs : \E existing \in ExistingInputs :
       \E env \in BOOLEAN : \E envExample \in BOOLEAN :
         setup' = [setup EXCEPT
                     !.pc = "check",
                     !.node = [major |-> major, minor |-> minor,
                               patch |-> patch],
                     !.nodeVersion = VersionText(major, minor, patch),
                     !.existing = existing,
                     !.env = env,
                     !.envExample = envExample]
    /\ OnlySetup

\* lines 13-18
CheckVersion ==
    /\ setup.pc = "check"
    /\ IF StringLess(setup.nodeVersion, requiredVersion)
          THEN setup' = [setup EXCEPT !.pc = "exited", !.exit = "1"]
          ELSE setup' = [setup EXCEPT !.pc = "directories", !.passed = TRUE]
    /\ OnlySetup

\* lines 21-34
CreateDirectories ==
    /\ setup.pc = "directories"
    /\ setup' = [setup EXCEPT !.pc = "env",
                              !.created = directories \ setup.existing]
    /\ OnlySetup

\* lines 37-44
CopyEnv ==
    /\ setup.pc = "env"
    /\ setup' = [setup EXCEPT !.pc = "install",
                              !.copied = ~setup.env /\ setup.envExample]
    /\ OnlySetup

\* lines 47-54: npm install
InstallDependencies ==
    /\ setup.pc = "install"
    /\ \E fails \in BOOLEAN :
         IF fails
            THEN setup' = [setup EXCEPT !.pc = "exited", !.exit = "1"]
            ELSE setup' = [setup EXCEPT !.pc = "build", !.installed = TRUE]
    /\ OnlySetup

\* lines 57-63: npm run build; a failure is a warning
RunBuild ==
    /\ setup.pc = "build"
    /\ \E fails \in BOOLEAN :
         setup' = [setup EXCEPT !.pc = "rest", !.built = ~fails]
    /\ OnlySetup

\* lines 65-447: git hook, certificates, configuration files, the summary
FinishSetup ==
    /\ setup.pc = "rest"
    /\ setup' = [setup EXCEPT !.pc = "exited", !.exit = "0"]
    /\ OnlySetup

SetupNext ==
    \/ SetupStart
    \/ CheckVersion
    \/ CreateDirectories
    \/ CopyEnv
    \/ InstallDependencies
    \/ RunBuild
    \/ FinishSetup

-----------------------------------------------------------------------------
(***************************************************************************)
(* Logger, components/features/BundleCreator.tsx lines 232-400             *)
(*                                                                         *)
(* The message of the n-th call of debug, info, warn or error is n; an     *)
(* entry is kept as its level and its message.  printed counts the lines   *)
(* written to the console.                                                 *)
(***************************************************************************)

DEBUG == 0

INFO == 1

WARN == 2

ERROR == 3

LogLevels == {DEBUG, INFO, WARN, ERROR}

maxLogs == 1000

\* At most MaxCalls single calls are made before the Logger is given
\* BurstSize calls in a row, and at most MaxCalls after that
MaxCalls == 3

BurstSize == maxLogs - 2

\* data of a call: none, or an object that refers to itself
DataInputs == {"none", "circular"}

\* new Logger(LogLevel.INFO), line 400, NODE_ENV not being 'development'
LoggerInit ==
    log = [ level   |-> INFO,
            logs    |-> << >>,
            printed |-> 0,
            calls   |-> 0,
            last    |-> [fn |-> "new"] ]

shouldLog(lg, level) == level >= lg.level

addLogKeepingFirst(lg, level, message) ==
    LET pushed == Append(lg.logs, [level |-> level, message |-> message]) IN
    [lg EXCEPT !.logs = IF Len(pushed) > maxLogs
                           THEN Slice(pushed, 0, maxLogs)
                           ELSE pushed]

\* addLog: push, then logs.slice(-maxLogs) when there are more than maxLogs
addLog(lg, level, message) ==
    LET pushed == Append(lg.logs, [level |-> level, message |-> message]) IN
    [lg EXCEPT !.logs = IF Len(pushed) > maxLogs
                           THEN SliceFrom(pushed, 0 - maxLogs)
                           ELSE pushed]

\* debug, info, warn and error, lines 286-312, as one function of the level:
\* return when the level is not logged; addLog; then console[level] of
\* formatMessage, where JSON.stringify(data) throws for the circular data
WriteLog(lg, level, data) ==
    LET message == lg.calls + 1
        called  == [lg EXCEPT !.calls = message] IN
    IF ~shouldLog(lg, level)
       THEN [called EXCEPT !.last = [fn |-> "log", level |-> level,
                                     threw |-> FALSE]]
       ELSE LET added == addLog(called, level, message) IN
            IF data = "circular"
               THEN [added EXCEPT !.last = [fn |-> "log", level |-> level,
                                            threw |-> TRUE]]
               ELSE [added EXCEPT !.printed = @ + 1,
                                  !.last = [fn |-> "log", level |-> level,
                                            threw |-> FALSE]]

CallsLeft ==
    IF log.calls < BurstSize
       THEN log.calls < MaxCalls
       ELSE log.calls < BurstSize + MaxCalls

\* logger.debug, logger.info, logger.warn or logger.error is called
LogMessage ==
    /\ CallsLeft
    /\ \E level \in LogLevels : \E data \in DataInputs :
         log' = WriteLog(log, level, data)
    /\ OnlyLogger

\* info(message) n times in a row: the first half of the calls, then the rest
RECURSIVE InfoTimes(_, _)
InfoTimes(lg, n) ==
    IF n = 0 THEN lg
    ELSE IF n = 1 THEN WriteLog(lg, INFO, "none")
    ELSE LET half == InfoTimes(lg, n \div 2) IN
         IF half.calls > lg.calls THEN InfoTimes(half, n - n \div 2)
         ELSE lg

\* A caller calls logger.info BurstSize times in a row
LogBurst ==
    /\ log.calls < MaxCalls
    /\ log' = [InfoTimes(log, BurstSize) EXCEPT !.last = [fn |-> "burst"]]
    /\ OnlyLogger

\* getLogs(level), lines 333-338
getLogs(lg, level) == SelectSeq(lg.logs, LAMBDA entry : entry.level >= level)

\* clearLogs(), lines 341-343
ClearLogs ==
    /\ log.logs # << >>
    /\ log' = [log EXCEPT !.logs = << >>, !.last = [fn |-> "clearLogs"]]
    /\ OnlyLogger

\* setLevel(level), lines 346-348
SetLevel ==
    /\ \E level \in LogLevels :
         log' = [log EXCEPT !.level = level,
                            !.last = [fn |-> "setLevel", level |-> level]]
    /\ OnlyLogger

LoggerNext ==
    \/ LogMessage
    \/ LogBurst
    \/ ClearLogs
    \/ SetLevel

-----------------------------------------------------------------------------
(***************************************************************************)
(* TradingPanel, components/features/TradingPanel.tsx lines 9-176          *)
(*                                                                         *)
(* awaited holds, for each handleTrade call suspended at its await, what   *)
(* it awaits; last holds what the last step did: the parameters given to   *)
(* onTrade and whether console.error was called.                           *)
(***************************************************************************)

\* Three of the five options of the two selects
TokenInputs == {"SOL", "USDC", "USDT"}

\* What the amount field holds: '', '0', '1.5'
AmountInputs == { << >>, <<"0">>, <<"1", ".", "5">> }

\* The slippage presets '0.1' and '1.0', and the custom field cleared
SlippageInputs == { << >>, <<"0", ".", "1">>, <<"1", ".", "0">> }

\* The prop onTrade: not given, a function that returns nothing, one that
\* returns a promise, one that throws
OnTradeInputs == {"undefined", "void", "promise", "throws"}

TradeInit ==
    trade = [ fromToken |-> "SOL",
              toToken   |-> "USDC",
              amount    |-> << >>,
              slippage  |-> <<"0", ".", "5">>,
              isLoading |-> FALSE,
              awaited   |-> << >>,
              last      |-> [fn |-> "mount"] ]

Did(fn, params, logged) == [fn |-> fn, onTrade |-> params, logged |-> logged]

\* The Trade button, lines 162-169; Button is disabled when loading
TradeDisabled(t) ==
    t.isLoading \/ t.amount = << >> \/ t.fromToken = "" \/ t.toToken = ""

\* handleTrade up to its await, lines 16-25, and through catch and finally
\* when onTrade throws at once
handleTrade(t, onTrade) ==
    IF t.amount = << >> \/ t.fromToken = "" \/ t.toToken = ""
       THEN [t EXCEPT !.last = Did("handleTrade", << >>, FALSE)]
       ELSE LET params == [ fromToken |-> t.fromToken,
                            toToken   |-> t.toToken,
                            amount    |-> ParseFloat(t.amount),
                            slippage  |-> ParseFloat(t.slippage) ]
            IN
            CASE onTrade = "undefined" ->
                   [t EXCEPT !.isLoading = TRUE,
                             !.awaited = Append(@, "undefined"),
                             !.last = Did("handleTrade", << >>, FALSE)]
              [] onTrade = "void" ->
                   [t EXCEPT !.isLoading = TRUE,
                             !.awaited = Append(@, "undefined"),
                             !.last = Did("handleTrade", <<params>>, FALSE)]
              [] onTrade = "promise" ->
                   [t EXCEPT !.isLoading = TRUE,
                             !.awaited = Append(@, "promise"),
                             !.last = Did("handleTrade", <<params>>, FALSE)]
              [] onTrade = "throws" ->
                   [t EXCEPT !.isLoading = FALSE,
                             !.last = Did("handleTrade", <<params>>, TRUE)]

\* The Trade button is pressed
HandleTrade ==
    /\ ~TradeDisabled(trade)
    /\ \E onTrade \in OnTradeInputs : trade' = handleTrade(trade, onTrade)
    /\ OnlyTrade

TradeSettledInTry(t, rejected) ==
    [t EXCEPT !.isLoading = IF rejected THEN @ ELSE FALSE,
              !.awaited = Tail(@),
              !.last = Did("settled", << >>, rejected)]

\* handleTrade after its await, lines 26-30: console.error in the catch
\* block when the promise rejected, setIsLoading(false) in the finally block
TradeSettled(t, rejected) ==
    [t EXCEPT !.isLoading = FALSE,
              !.awaited = Tail(@),
              !.last = Did("settled", << >>, rejected)]

\* What the first suspended call awaits is fulfilled
TradeResolves ==
    /\ trade.awaited # << >>
    /\ trade' = TradeSettled(trade, FALSE)
    /\ OnlyTrade

\* The promise that the first suspended call awaits is rejected
TradeRejects ==
    /\ trade.awaited # << >>
    /\ Head(trade.awaited) = "promise"
    /\ trade' = TradeSettled(trade, TRUE)
    /\ OnlyTrade

\* swapTokens, lines 33-36
swapTokens(t) ==
    [t EXCEPT !.fromToken = t.toToken,
              !.toToken = t.fromToken,
              !.last = Did("swapTokens", << >>, FALSE)]

SwapTokens ==
    /\ trade' = swapTokens(trade)
    /\ OnlyTrade

\* onChange of the two selects and of the two inputs, onClick of a preset
EditTrade ==
    /\ \/ \E token \in TokenInputs :
            trade' = [trade EXCEPT !.fromToken = token,
                                   !.last = Did("setFromToken", << >>, FALSE)]
       \/ \E token \in TokenInputs :
            trade' = [trade EXCEPT !.toToken = token,
                                   !.last = Did("setToToken", << >>, FALSE)]
       \/ \E amount \in AmountInputs :
            trade' = [trade EXCEPT !.amount = amount,
                                   !.last = Did("setAmount", << >>, FALSE)]
       \/ \E slippage \in SlippageInputs :
            trade' = [trade EXCEPT !.slippage = slippage,
                                   !.last = Did("setSlippage", << >>, FALSE)]
    /\ OnlyTrade

TradeNext ==
    \/ HandleTrade
    \/ TradeResolves
    \/ TradeRejects
    \/ SwapTokens
    \/ EditTrade

-----------------------------------------------------------------------------
Init ==
    /\ AppInit /\ BundleInit /\ PairInit /\ RetryInit /\ ApiInit
    /\ FormatInit
    /\ HookInit
    /\ EncryptionInit
    /\ SecureInit
    /\ SetupInit
    /\ LoggerInit
    /\ TradeInit

SpecApp == Init /\ [][AppNext]_vars

SpecBundle == Init /\ [][BundleNext]_vars

\* What CreateBundleResume and CreateBundleThrows do to the suspended calls
CreationSettles == inflight # << >> /\ inflight' = Tail(inflight)

\* The timer of the simulated delay fires, and onCreateBundle returns or
\* throws
SpecBundleLive ==
    /\ Init
    /\ [][BundleNext]_vars
    /\ WF_inflight(CreationSettles)

SpecPair == Init /\ [][PairNext]_vars

SpecFormat == Init /\ [][FormatNext]_vars

SpecHook == Init /\ [][HookNext]_vars

SpecEncryption == Init /\ [][EncryptionNext]_vars

SpecSecure == Init /\ [][SecureNext]_vars

SpecSetup == Init /\ [][SetupNext]_vars

SpecLogger == Init /\ [][LoggerNext]_vars

\* What a suspended handleTrade call awaits is settled
SpecTrade ==
    /\ Init
    /\ [][TradeNext]_vars
    /\ WF_trade(TradeResolves \/ TradeRejects)

\* Every invocation of fn settles and every delay ends
SpecRetry ==
    /\ Init
    /\ [][RetryNext]_vars
    /\ WF_vars(FnResolves \/ FnRejects)
    /\ WF_vars(DelayElapses)

\* Timers fire when they are due, and time passes
SpecApi ==
    /\ Init
    /\ [][ApiNext]_vars
    /\ WF_vars(TimerFires)
    /\ WF_vars(ApiAdvance)

LoadingScreenActive ==
    app.isLoading \/ ls.mounted \/ ls.intervalSet \/ ls.timeoutSet
        \/ view = "LoadingScreen"

AllStagesInOrder == hist.stagesShown = <<20, 40, 60, 80, 100>>

C1_State ==
    /\ IframeRendered => ~LoadingScreenActive
    /\ hist.onCompleteCalls <= 1
    /\ hist.onCompleteCalls = 1 => AllStagesInOrder
    /\ (hist.onCompleteCalls = 1 /\ ~hist.errorReported)
          => (IframeRendered /\ ~LoadingScreenActive)

C1_Step ==
    (hist'.mounts = hist.mounts /\ view # "LoadingScreen")
        => view' # "LoadingScreen"

\* C1: the iframe is never rendered while the loading screen is active;
\* onComplete is called at most once per mount and only after the five
\* stages 20, 40, 60, 80, 100 were shown in that order; once onComplete has
\* fired and no error was reported the iframe is rendered, and within one
\* mount the loading screen is never shown again after it was left.
C1_LoadingThenIframe == [](C1_State) /\ [][C1_Step]_vars

C1_Witness ==
    /\ hist.onCompleteCalls = 1
    /\ ~hist.errorReported
    /\ AllStagesInOrder
    /\ IframeRendered
    /\ ~ti.isLoading

-----------------------------------------------------------------------------
(***************************************************************************)
(* Properties of BundleCreator                                             *)
(***************************************************************************)

SelectedIndices(wallets) == {i \in DOMAIN wallets : wallets[i].selected}

RECURSIVE SumOfBalances(_, _)
SumOfBalances(wallets, indices) ==
    IF indices = {} THEN 0
    ELSE LET i == CHOOSE j \in indices : TRUE
         IN wallets[i].balance.v + SumOfBalances(wallets, indices \ {i})

\* The number a numeric field stands for, an empty field counting as 0
FieldValue(text) == IF text = << >> THEN Num(0) ELSE ParseFloat(text)

\* The strings s with s = white space, t, white space
IsTrimOf(t, s) ==
    /\ t = << >> \/ (~IsWhiteSpace(t[1]) /\ ~IsWhiteSpace(t[Len(t)]))
    /\ \E a \in 0..Len(s) :
         /\ a + Len(t) <= Len(s)
         /\ SubSeq(s, a + 1, a + Len(t)) = t
         /\ \A i \in (1..a) \cup ((a + Len(t) + 1)..Len(s)) :
                IsWhiteSpace(s[i])

InRange(x, lo, hi) == ~x.nan /\ lo <= x.v /\ x.v <= hi

\* C2 (as claimed): onCreateBundle is called only for a form whose token
\* address is non-blank and matches ^[A-Za-z0-9]{32,44}$, whose buy amount is
\* greater than 0, whose sell percentage is between 0 and 100, with at least
\* one wallet selected and a total investment within the total balance.
C2_CallsOnlyWhenValid ==
    \A k \in DOMAIN out.onCreateBundle :
        LET form    == out.onCreateBundle[k].pressed.form
            wallets == out.onCreateBundle[k].pressed.wallets
            n       == Cardinality(SelectedIndices(wallets))
            buy     == ParseFloat(form.buyAmount)
        IN /\ Trim(form.tokenAddress) # << >>
           /\ validateTokenAddress(form.tokenAddress)
           /\ ~buy.nan /\ buy.v > 0
           /\ InRange(ParseFloat(form.sellPercentage), 0, 100 * Scale)
           /\ n >= 1
           /\ buy.v * n <= SumOfBalances(wallets, SelectedIndices(wallets))

\* C3: in every state the memo values agree with the wallets and the form:
\* selectedWallets is exactly the wallets whose selected flag is true (in
\* list order), totalBalance is the sum of their balances, totalInvestment
\* is the buy amount (0 when empty) times their number and totalFees is the
\* priority fee (0 when empty) times their number.
C3_MemoTotals ==
    LET indices == SelectedIndices(bc.wallets)
        n       == Cardinality(indices)
    IN /\ memo.selectedWallets = SelectSeq(bc.wallets, LAMBDA w : w.selected)
       /\ Len(memo.selectedWallets) = n
       /\ memo.totalBalance = Num(SumOfBalances(bc.wallets, indices))
       /\ memo.totalInvestment = Num(FieldValue(bc.buyAmount).v * n)
       /\ memo.totalFees = Num(FieldValue(bc.priorityFee).v * n)

C3_Witness ==
    /\ bc.wallets[3].selected /\ bc.wallets[2].selected
    /\ ~bc.wallets[1].selected
    /\ bc.buyAmount = <<"1", ".", "9">>
    /\ bc.priorityFee = << >>
    /\ memo.totalInvestment = ParseFloat(<<"3", ".", "8">>)
    /\ memo.totalBalance = ParseFloat(<<"3", ".", "1">>)
    /\ memo.totalFees = Num(0)

\* C4: the configuration passed to onCreateBundle holds the trimmed token
\* address and the parsed values of the form as it was when Create Bundle
\* was pressed, and in its wallets field the addresses of exactly the
\* wallets selected at that moment, in wallet-list order, each once.
C4_ConfigOfPressedForm ==
    \A k \in DOMAIN out.onCreateBundle :
        LET config  == out.onCreateBundle[k].config
            form    == out.onCreateBundle[k].pressed.form
            wallets == out.onCreateBundle[k].pressed.wallets
            chosen  == SelectSeq(wallets, LAMBDA w : w.selected)
        IN /\ IsTrimOf(config.tokenAddress, form.tokenAddress)
           /\ config.buyAmount = ParseFloat(form.buyAmount)
           /\ config.sellPercentage = ParseFloat(form.sellPercentage)
           /\ config.priorityFee = ParseFloat(form.priorityFee)
           /\ config.slippage = ParseFloat(form.slippage)
           /\ config.maxGasPrice = ParseFloat(form.maxGasPrice)
           /\ config.deadline = ParseInt(form.deadline)
           /\ config.autoApprove = form.autoApprove
           /\ Len(config.wallets) = Len(chosen)
           /\ \A i \in DOMAIN chosen : config.wallets[i] = chosen[i].address

\* A creation whose selection was changed while the call was suspended
C4_Witness ==
    /\ Len(out.onCreateBundle) = 1
    /\ out.onCreateBundle[1].config.wallets =
           <<DefaultWallets[1].address, DefaultWallets[2].address>>
    /\ out.onCreateBundle[1].config.buyAmount = ParseFloat(<<"1", ".", "9">>)
    /\ bc.wallets[3].selected
    /\ ~bc.wallets[1].selected

\* Wallets with their type tags erased
Untag(wallets) ==
    [i \in DOMAIN wallets |-> [wallets[i] EXCEPT !.type = "dev"]]

\* C10: two BundleCreator states that differ only in the type tags of their
\* wallets and are given the same operations (toggle, select all, deselect
\* all, edit, reset, create bundle) stay equal up to the tags: same
\* selection, transaction counts, statistics and form, the same validation
\* result and the same configuration object; no operation changes a tag.
C10_TypeTagIrrelevant ==
    LET a  == pair.a
        b  == pair.b
        ma == Memo(a)
        mb == Memo(b)
    IN /\ [a EXCEPT !.wallets = Untag(@)] = [b EXCEPT !.wallets = Untag(@)]
       /\ validateInputs(a, ma) = validateInputs(b, mb)
       /\ BundleConfig(a, ma) = BundleConfig(b, mb)
       /\ \A i \in DOMAIN a.wallets :
             /\ a.wallets[i].type = DefaultWallets[i].type
             /\ b.wallets[i].type = pair.tags[i]

\* A bundle was created for wallets 1 and 2 in both instances, whose tags
\* differ between the instances
C10_Witness ==
    /\ pair.mounted
    /\ pair.tags = [i \in DOMAIN DefaultWallets |-> "trading"]
    /\ pair.a.wallets[1].transactionCount = 1
    /\ pair.a.wallets[2].transactionCount = 1
    /\ pair.b.wallets[3].transactionCount = 0
    /\ pair.b.wallets[2].transactionCount = 1
    /\ pair.b.bundleStats.totalBundles = InitialBundleStats.totalBundles + 1
    /\ pair.b.bundleStats.totalVolume
          = NumPlus(InitialBundleStats.totalVolume,
                    ParseFloat(<<"3", ".", "8">>))

-----------------------------------------------------------------------------
(***************************************************************************)
(* Properties of apiUtils.retry and ApiService.request                     *)
(***************************************************************************)

RECURSIVE Pow2(_)
Pow2(n) == IF n <= 0 THEN 1 ELSE 2 * Pow2(n - 1)

C5_State ==
    /\ rt.calls <= rt.retries0 + 1
    /\ Len(rt.outcomes) = rt.calls
    /\ (rt.pc = "done") = (rt.settled # "pending")
    /\ rt.settled = "resolved" =>
          /\ rt.outcomes[rt.calls] = "resolves"
          /\ \A k \in 1..(rt.calls - 1) : rt.outcomes[k] = "rejects"
          /\ rt.value = rt.calls
    /\ rt.settled = "rejected" =>
          /\ rt.calls = rt.retries0 + 1
          /\ \A k \in 1..rt.calls : rt.outcomes[k] = "rejects"
          /\ rt.error = rt.calls

\* Once the call has settled fn is invoked again only by a new call
C5_Step ==
    (rt.settled # "pending" /\ rt'.calls # rt.calls) => rt'.calls = 0

\* C5: retry invokes fn at most retries + 1 times; it resolves with the
\* result of the first invocation that succeeds and invokes fn no further;
\* if all retries + 1 invocations fail it rejects with the error of the last
\* one; and every call settles (each invocation of fn settling).
C5_RetryBounded ==
    /\ [](C5_State)
    /\ [][C5_Step]_vars
    /\ (rt.pc \in {"fn", "delay"}) ~> (rt.pc = "done")

C5_Witness ==
    /\ rt.settled = "resolved"
    /\ rt.retries0 = DefaultRetries
    /\ rt.outcomes = <<"rejects", "rejects", "resolves">>
    /\ rt.value = 3

\* C6: the wait before the k-th re-invocation of fn is delay * 2^(k-1), for
\* k = 1..retries; there is one wait between two invocations, none before
\* the first invocation and none after the last one.
C6_ExponentialBackoff ==
    /\ \A k \in DOMAIN rt.waits : rt.waits[k] = rt.delay0 * Pow2(k - 1)
    /\ Len(rt.waits) <= rt.retries0
    /\ rt.pc \in {"fn", "delay"} => Len(rt.waits) = rt.calls
    /\ rt.pc = "done" => Len(rt.waits) = rt.calls - 1
    /\ rt.calls = 0 => rt.waits = << >>

C6_Witness ==
    /\ rt.settled = "rejected"
    /\ rt.retries0 = DefaultRetries
    /\ rt.delay0 = DefaultDelay
    /\ rt.waits = <<1000, 2000, 4000>>
    /\ rt.calls = 4

\* C7 (as claimed): a request that failed with a network failure is retried,
\* so that when it has ended fetch was called more than once for it.
C7_NetworkFailureRetried ==
    (rq.pc = "done" /\ rq.networkFailed) => rq.fetchCalls > 1

IsSuccessResult(r) == DOMAIN r = {"success", "data"} /\ r.success

IsFailureResult(r) == DOMAIN r = {"success", "error"} /\ ~r.success

\* C8: request never rejects.  A call that has ended has resolved exactly
\* once, to {success: false, error} without data after a network error, an
\* abort, a status that is not ok or an unreadable body, and to
\* {success: true, data} without error otherwise; a call under way has not
\* resolved.
C8_RequestNeverRejects ==
    /\ Len(rq.results) <= 1
    /\ (rq.pc = "done") = (Len(rq.results) = 1)
    /\ \A k \in DOMAIN rq.results :
          LET failed == rq.networkFailed \/ rq.timedOut \/ rq.badStatus
                            \/ rq.badBody
          IN IF failed THEN IsFailureResult(rq.results[k])
                       ELSE IsSuccessResult(rq.results[k])

C8_Witness ==
    /\ rq.pc = "done"
    /\ rq.badBody
    /\ rq.responded
    /\ rq.results = << Failure("Unexpected token") >>

C9_State ==
    /\ rq.timedOut =>
          /\ rq.pc = "done"
          /\ rq.aborted /\ ~rq.responded
          /\ Len(rq.results) = 1 /\ IsFailureResult(rq.results[1])
    /\ rq.pc = "fetch" => (rq.timerSet /\ rq.elapsed <= rq.timeout)
    /\ rq.responded => (~rq.timerSet /\ ~rq.aborted /\ ~rq.timedOut)

\* C9: a request whose fetch has produced no response when the timer fires
\* (after 10000 ms) is aborted and resolves to {success: false}; no fetch
\* stays pending; a request whose response arrived before the timer fired is
\* never aborted by the timer.
C9_AbortOnTimeout ==
    /\ [](C9_State)
    /\ (rq.pc = "fetch") ~> (rq.pc = "done" \/ rq.responded)

C9_Witness ==
    /\ rq.timedOut
    /\ rq.elapsed = DefaultTimeout
    /\ rq.aborted
    /\ rq.pc = "done"
    /\ rq.results = << Failure("The operation was aborted") >>

-----------------------------------------------------------------------------
(***************************************************************************)
(* Frame of the BundleCreator operations                                   *)
(***************************************************************************)

\* The two wallet lists hold the same wallets in the same order
SameWallets(before, after) ==
    /\ Len(after) = Len(before)
    /\ \A i \in DOMAIN before :
          /\ after[i].id = before[i].id
          /\ after[i].address = before[i].address
          /\ after[i].type = before[i].type
          /\ after[i].name = before[i].name
          /\ after[i].balance = before[i].balance

\* A step in which a creation ran to its end
CreationEnds == out'.calls = out.calls + 1

C11_Step ==
    /\ SameWallets(bc.wallets, bc'.wallets)
    /\ IF CreationEnds
          THEN \A i \in DOMAIN bc.wallets :
                  bc'.wallets[i].selected = bc.wallets[i].selected
          ELSE /\ out'.onCreateBundle = << >>
               /\ \A i \in DOMAIN bc.wallets :
                     /\ bc'.wallets[i].transactionCount
                           = bc.wallets[i].transactionCount
                     /\ bc'.wallets[i].lastUsed = bc.wallets[i].lastUsed

\* The callback props called by a step that ended a creation
C11_OutwardOnlyOnCreateBundle ==
    out.onCreateBundle # << >> =>
        /\ Len(out.onCreateBundle) = 1
        /\ out.onError = << >>
        /\ out.onWalletsUpdate = << >>

C11_OutwardWithWalletsUpdate ==
    out.onCreateBundle # << >> =>
        /\ Len(out.onCreateBundle) = 1
        /\ out.onError = << >>
        /\ out.onWalletsUpdate = << bc.wallets >>

-----------------------------------------------------------------------------
(***************************************************************************)
(* Properties of the formatters                                            *)
(***************************************************************************)

\* The last n characters of s
LastChars(s, n) == SubSeq(s, Len(s) - n + 1, Len(s))

\* C12 (as claimed): formatAddress returns the address unchanged when it is
\* null, empty or no longer than startChars + endChars, and otherwise its
\* first startChars characters, then '...', then its last endChars
\* characters, for all startChars >= 0 and endChars >= 0.
C12_FormatAddress ==
    fmt.fn = "formatAddress" =>
        LET s == fmt.address.s IN
        IF fmt.address.null \/ s = << >>
              \/ Len(s) <= fmt.startChars + fmt.endChars
           THEN fmt.result = fmt.address
           ELSE fmt.result = Str(SubSeq(s, 1, fmt.startChars)
                                   \o <<".", ".", ".">>
                                   \o LastChars(s, fmt.endChars))

\* The result is the printed number text, after '$' when currency is set and
\* before the suffix, and the number printed is at least 1 and below 1000 in
\* magnitude
PrintedWithUnit(result, value, decimals, currency, k) ==
    LET scaled  == ScaledValue(value.digits, k)
        printed == ToFixed(scaled.int, scaled.frac, decimals)
        whole   == IF decimals > 0 THEN Len(printed) - decimals - 1
                   ELSE Len(printed)
    IN /\ result = (IF currency THEN <<"$">> ELSE << >>)
                      \o (IF value.neg THEN <<"-">> ELSE << >>)
                      \o printed \o units[k + 1]
       /\ whole \in 1..3
       /\ printed[1] # "0"

\* C13 (as claimed): with compact set and |value| >= 1000 formatNumber
\* returns value / 1000^k with the requested decimals and the suffix K, M, B
\* or T for k = 1, 2, 3, 4, after '$' when currency is set, the number
\* printed being at least 1 and below 1000; otherwise it returns the plain
\* grouped number.
C13_FormatNumberCompact ==
    (fmt.fn = "formatNumber" /\ ~fmt.percentage) =>
        IF fmt.compact /\ Len(fmt.value.digits) >= 4
           THEN \E k \in 1..4 :
                   PrintedWithUnit(fmt.result, fmt.value, fmt.decimals,
                                   fmt.currency, k)
           ELSE fmt.result = (IF fmt.currency THEN <<"$">> ELSE << >>)
                                \o ToLocaleString(fmt.value, fmt.decimals)

\* C14 (as claimed): formatTime gives 'Just now' for a timestamp less than a
\* minute in the past, '<n>m ago' for 1 to 59 whole minutes, '<n>h ago' for
\* 1 to 23 whole hours, '<n>d ago' for 1 to 6 whole days, n the elapsed time
\* rounded down to the unit, and a calendar date for every other timestamp.
C14_FormatTimeForms ==
    fmt.fn = "formatTime" =>
        LET elapsed == fmt.now - fmt.timestamp IN
        IF 0 <= elapsed /\ elapsed < MinuteMs
           THEN fmt.result.form = "Just now"
        ELSE IF MinuteMs <= elapsed /\ elapsed < HourMs
           THEN /\ fmt.result = [form |-> "m ago", n |-> elapsed \div MinuteMs]
                /\ fmt.result.n \in 1..59
        ELSE IF HourMs <= elapsed /\ elapsed < DayMs
           THEN /\ fmt.result = [form |-> "h ago", n |-> elapsed \div HourMs]
                /\ fmt.result.n \in 1..23
        ELSE IF DayMs <= elapsed /\ elapsed < 7 * DayMs
           THEN /\ fmt.result = [form |-> "d ago", n |-> elapsed \div DayMs]
                /\ fmt.result.n \in 1..6
        ELSE fmt.result = [form |-> "toLocaleDateString", n |-> fmt.timestamp]

-----------------------------------------------------------------------------
(***************************************************************************)
(* Properties of useLocalStorage                                           *)
(***************************************************************************)

\* The entry of every key that setValue wrote last holds the JSON text of
\* the value written, and that text parses to the value
C15_State ==
    /\ ~uls.threw
    /\ \A k \in StorageKeys :
          uls.lastSet[k].set =>
             /\ ~JsonStringify(uls.lastSet[k].value).throws
             /\ uls.items[k] = Item(JsonStringify(uls.lastSet[k].value).text)
             /\ JsonParse(uls.items[k].text) = Parsed(uls.lastSet[k].value)

\* A hook that is mounted starts with the value written last under its key,
\* and with initialValue where the key is absent or holds no JSON text
C15_Step ==
    (~uls.mounted /\ uls'.mounted) =>
        LET item == uls.items[uls'.key] IN
        /\ uls.lastSet[uls'.key].set =>
              uls'.storedValue = uls.lastSet[uls'.key].value
        /\ (~item.present \/ ~JsonParse(item.text).ok) =>
              uls'.storedValue = uls'.initialValue

-----------------------------------------------------------------------------
(***************************************************************************)
(* Properties of EncryptionService                                         *)
(***************************************************************************)

\* C16: decrypt gives back the string that encrypt was given, the empty
\* string included; decryptObject gives back the value that encryptObject
\* was given; decrypt of data that encrypt did not produce with the same key
\* throws 'Failed to decrypt data' and returns no value.
C16_EncryptionRoundTrip ==
    /\ (enc.call.fn = "decrypt" /\ enc.from.fn = "encrypt") =>
          /\ ~enc.call.threw
          /\ enc.call.text = enc.from.text
    /\ (enc.call.fn = "decryptObject" /\ enc.from.fn = "encryptObject") =>
          /\ ~enc.call.threw
          /\ enc.call.obj = enc.from.obj
    /\ (enc.call.fn = "decrypt" /\ enc.from.fn = "elsewhere") =>
          /\ enc.call.threw
          /\ enc.call.error = "Failed to decrypt data"

-----------------------------------------------------------------------------
(***************************************************************************)
(* Properties of secureStorage                                             *)
(***************************************************************************)

\* The entry of a key whose data does not decrypt to a JSON text
Unreadable(entry) ==
    entry.present /\ decryptObject(entry.data).threw

\* getItem returned the value stored last under its key, and null for a key
\* that holds nothing or holds data that is not decrypted or not parsed
C17_State ==
    /\ ~sec.threw
    /\ sec.call.fn = "getItem" =>
          /\ "value" \in DOMAIN sec.call
          /\ sec.lastSet[sec.call.key].set =>
                sec.call.value = sec.lastSet[sec.call.key].value
          /\ ~sec.items[sec.call.key].present => sec.call.value = JNull
          /\ Unreadable(sec.items[sec.call.key]) => sec.call.value = JNull

\* A setItem whose catch block ran left every entry as it was, and any other
\* setItem changed the entry of its key only
C17_Step ==
    sec'.call.fn = "setItem" =>
        /\ sec'.call.logged => sec'.items = sec.items
        /\ \A k \in StorageKeys \ {sec'.call.key} :
              sec'.items[k] = sec.items[k]

\* C17: secureStorage never throws to its caller; getItem(key) returns the
\* value that setItem stored last under the key, and null when the key is
\* absent, removed, cleared or holds data that cannot be decrypted or parsed;
\* a failing setItem leaves the entry that was stored before unchanged.
C17_SecureStorage ==
    /\ [](C17_State)
    /\ [][C17_Step]_vars

\* getItem('wallets') returned the array that setItem stored there, while
\* 'settings' holds data that does not decrypt
C17_Witness ==
    /\ sec.call = [fn |-> "getItem", key |-> "wallets",
                   value |-> JArr(<< JNum(1), JStr(<<"a">>) >>)]
    /\ sec.lastSet["wallets"].set
    /\ Unreadable(sec.items["settings"])

-----------------------------------------------------------------------------
(***************************************************************************)
(* Properties of the setup script                                          *)
(***************************************************************************)

\* The version of the Node.js that runs the script is lower than 16.0.0
LowerThanRequired == setup.node.major < 16

\* C18: once the version is checked, a run under a Node.js lower than
\* v16.0.0 has exited with status 1 and has created no directory, copied no
\* .env and installed nothing, and a run under v16.0.0 or higher has passed
\* the check.
C18_RequiresNode16 ==
    setup.pc \notin {"idle", "check"} =>
        IF LowerThanRequired
           THEN /\ setup.exit = "1"
                /\ ~setup.passed
                /\ setup.created = {}
                /\ ~setup.copied
                /\ ~setup.installed
           ELSE setup.passed

-----------------------------------------------------------------------------
(***************************************************************************)
(* The wallets of a creation                                               *)
(***************************************************************************)

\* The addresses of the wallets that the step counted a transaction for
CountedAddresses ==
    { bc.wallets[i].address : i \in
        { j \in DOMAIN bc.wallets :
            /\ bc'.wallets[j].transactionCount
                  = bc.wallets[j].transactionCount + 1
            /\ bc'.wallets[j].lastUsed = "new Date()" } }

\* The addresses in the configuration that the step passed to onCreateBundle
ConfiguredAddresses ==
    { out'.onCreateBundle[1].config.wallets[i] :
        i \in DOMAIN out'.onCreateBundle[1].config.wallets }

\* C19: a step that ends a creation counts a transaction for exactly the
\* wallets whose addresses are in the configuration it passes to
\* onCreateBundle, whatever was toggled, selected or deselected during the
\* delay.
C19_CountedAreConfigured ==
    [][CreationEnds => CountedAddresses = ConfiguredAddresses]_vars

\* C20: every configuration passed to onCreateBundle has a buyAmount that is
\* a number greater than 0 and a sellPercentage that is a number from 0 to
\* 100, for every content of the form fields.
C20_ConfigNumbersValid ==
    \A k \in DOMAIN out.onCreateBundle :
        LET config == out.onCreateBundle[k].config IN
        /\ ~config.buyAmount.nan
        /\ config.buyAmount.v > 0
        /\ ~config.sellPercentage.nan
        /\ 0 <= config.sellPercentage.v
        /\ config.sellPercentage.v <= 100 * Scale

-----------------------------------------------------------------------------
(***************************************************************************)
(* A creation whose onCreateBundle throws                                  *)
(***************************************************************************)

\* A step in which onCreateBundle threw: the error text is the message that
\* onError is called with, once; the modal, the wallets and the statistics
\* are as before; isLoading is reset
C21_Step ==
    out'.onError # << >> =>
        /\ Len(out'.onError) = 1
        /\ bc'.error = out'.onError[1]
        /\ out'.onCreateBundle = << >>
        /\ bc'.isModalOpen = bc.isModalOpen
        /\ bc'.wallets = bc.wallets
        /\ bc'.bundleStats = bc.bundleStats
        /\ ~bc'.isLoading

\* C21: when onCreateBundle throws, the error text is the exception's
\* message, onError is called once with it, the modal is not closed and
\* neither transaction counts nor statistics change; on every path isLoading
\* is reset to false in the end.
C21_ThrowHandled ==
    /\ [][C21_Step]_vars
    /\ (bc.isLoading ~> ~bc.isLoading)

\* onCreateBundle threw while the modal was open: the message is shown and
\* nothing was counted
C21_Witness ==
    /\ out.onError = << "onCreateBundle failed" >>
    /\ bc.error = "onCreateBundle failed"
    /\ bc.isModalOpen
    /\ ~bc.isLoading
    /\ out.calls = 0
    /\ bc.bundleStats = InitialBundleStats

-----------------------------------------------------------------------------
(***************************************************************************)
(* The bundle statistics                                                   *)
(***************************************************************************)

\* The totalInvestment of the render in which Create Bundle was pressed, for
\* the creation that the step ends
PressedInvestment ==
    LET pressed == out'.onCreateBundle[1].pressed IN
    totalInvestment(pressed.form.buyAmount, selectedWallets(pressed.wallets))

C22_Step ==
    IF CreationEnds
       THEN /\ bc'.bundleStats =
                  [bc.bundleStats EXCEPT
                      !.totalBundles = @ + 1,
                      !.totalVolume = NumPlus(@, PressedInvestment)]
            /\ ~bc'.isModalOpen
       ELSE bc'.bundleStats = bc.bundleStats

C22_State ==
    /\ bc.bundleStats.successfulBundles <= bc.bundleStats.totalBundles
    /\ Len(inflight) <= 1
    /\ inflight # << >> => bc.isLoading

-----------------------------------------------------------------------------
(***************************************************************************)
(* Properties of the address validators                                    *)
(***************************************************************************)

\* C23: for every string, validateTokenAddress of BundleCreator,
\* validators.solanaAddress and validateSolanaAddress return the same answer.
C23_SameAddresses ==
    fmt.fn = "validate" =>
        /\ fmt.validateTokenAddress = fmt.solanaAddress
        /\ fmt.solanaAddress = fmt.validateSolanaAddress


-----------------------------------------------------------------------------
(***************************************************************************)
(* Properties of the setter of useLocalStorage                             *)
(***************************************************************************)

\* What the setter of useState does with an updater: it is given the latest
\* value of the state cell
ApplyToLatest(updater, u) == Apply(updater, u.storedValue)

\* A call of setValue with an updater leaves the updater's result on the
\* value that the state cell held before the call
C24_Step ==
    \A updater \in UpdaterInputs :
        (\E quotaExceeded \in BOOLEAN :
            CallWithUpdater(updater, quotaExceeded)) =>
                uls'.storedValue = ApplyToLatest(updater, uls)

\* C24: setValue behaves as the setter of useState: an updater function is
\* applied to the latest stored value, so that of several functional updates
\* issued one after another, also within one render, none is lost.
C24_SetterAsUseState == [][C24_Step]_vars

\* The state cell holds the value whose JSON text is the entry of the key
MemoryIsStored ==
    /\ uls.items[uls.key].present
    /\ JsonParse(uls.items[uls.key].text) = Parsed(uls.storedValue)

\* C25: after every call of setValue, whether the write to the storage
\* succeeded or threw, the value of the hook in memory and the value whose
\* JSON is stored under the key are the same.
C25_MemoryIsStored == [][(SetValue \/ SetValueUpdater) => MemoryIsStored']_vars


-----------------------------------------------------------------------------
(***************************************************************************)
(* Properties of the Logger                                                *)
(***************************************************************************)

\* The log holds at most maxLogs entries, in the order of the calls that
\* made them, each of a call that was made
C26_State ==
    /\ Len(log.logs) <= maxLogs
    /\ \A i \in 1..(Len(log.logs) - 1) :
          log.logs[i].message < log.logs[i + 1].message
    /\ log.logs # << >> => log.logs[Len(log.logs)].message <= log.calls

\* A call below the level stores and prints nothing; a call at or above it
\* puts its entry last, after the entries held before, the oldest of which
\* leaves a full log; setLevel leaves the entries and the console alone
C26_Step ==
    /\ (log'.last.fn = "log" /\ log'.calls = log.calls + 1) =>
          IF log'.last.level < log.level
             THEN /\ log'.logs = log.logs
                  /\ log'.printed = log.printed
                  /\ ~log'.last.threw
             ELSE /\ log'.logs =
                        Append(IF Len(log.logs) < maxLogs
                                  THEN log.logs ELSE Tail(log.logs),
                               [level   |-> log'.last.level,
                                message |-> log'.calls])
                  /\ log'.level = log.level
    /\ log'.last.fn = "setLevel" =>
          /\ log'.logs = log.logs
          /\ log'.printed = log.printed
          /\ getLogs(log', DEBUG) = log.logs

\* C26: after any sequence of debug, info, warn and error calls the log holds
\* at most 1000 entries, the most recently accepted ones in call order; a
\* call whose level is below the current level of the logger stores nothing
\* and prints nothing; setLevel affects later calls only.
C26_LoggerKeepsLast == [](C26_State) /\ [][C26_Step]_vars

\* The log is full, its oldest entries are gone, and its last entry is of a
\* call made after the level was raised to WARN and lowered
C26_Witness ==
    /\ Len(log.logs) = maxLogs
    /\ log.logs[1].message > 1
    /\ log.last = [fn |-> "log", level |-> ERROR, threw |-> FALSE]
    /\ log.level = WARN
    /\ log.logs[maxLogs].level = ERROR
    /\ log.logs[maxLogs].message = log.calls


-----------------------------------------------------------------------------
(***************************************************************************)
(* Properties of TradingPanel                                              *)
(***************************************************************************)

\* isLoading is true exactly while a handleTrade call is suspended at its
\* await, and at most one call is
C27_State ==
    /\ trade.isLoading <=> trade.awaited # << >>
    /\ Len(trade.awaited) <= 1

\* handleTrade calls onTrade at most once, only with the three fields
\* non-empty, and with the fields of the state; a rejection is logged and
\* the call ends; swapTokens exchanges the tokens and nothing else
C27_Step ==
    /\ trade'.last.fn = "handleTrade" =>
          /\ Len(trade'.last.onTrade) <= 1
          /\ trade'.last.onTrade # << >> =>
                /\ trade.amount # << >>
                /\ trade.fromToken # ""
                /\ trade.toToken # ""
                /\ trade'.last.onTrade[1].fromToken = trade.fromToken
                /\ trade'.last.onTrade[1].toToken = trade.toToken
          /\ trade'.last.logged => ~trade'.isLoading
    /\ trade'.last.fn = "settled" =>
          /\ ~trade'.isLoading
          /\ trade'.last.onTrade = << >>
          /\ trade'.awaited = Tail(trade.awaited)
    /\ trade'.last.fn = "swapTokens" =>
          /\ trade'.fromToken = trade.toToken
          /\ trade'.toToken = trade.fromToken
          /\ trade'.amount = trade.amount
          /\ trade'.slippage = trade.slippage
          /\ trade'.isLoading = trade.isLoading

\* C27: handleTrade calls onTrade at most once per invocation and only when
\* amount, fromToken and toToken are non-empty; isLoading is true exactly
\* while that call is pending and is reset to false afterwards, whether
\* onTrade resolves or rejects; a rejection is logged and not propagated;
\* swapTokens exchanges fromToken and toToken and leaves amount and slippage
\* unchanged.
C27_TradeOnce ==
    /\ [](C27_State)
    /\ [][C27_Step]_vars
    /\ (trade.isLoading ~> ~trade.isLoading)

\* A trade of USDC for SOL, the tokens swapped while it was pending, ended
\* with a rejection that was logged
C27_Witness ==
    /\ trade.last = Did("settled", << >>, TRUE)
    /\ ~trade.isLoading
    /\ trade.awaited = << >>
    /\ trade.fromToken = "USDC"
    /\ trade.toToken = "SOL"
    /\ trade.amount = <<"1", ".", "5">>


====
